---- MODULE Spec2Model ----
(***************************************************************************)
(* A model of go-lcsc's request orchestration: the token-bucket            *)
(* RateLimiter (ratelimit.go), the retry policy (retry.go), the cache      *)
(* the client consults and Client.doRequest (client.go).                   *)
(*                                                                         *)
(* Units.  Time is in milliseconds.  The bucket's float64 token count is   *)
(* kept exactly, in micro-tokens (TokenUnit per token), and the refill     *)
(* rate in milli-tokens per second, so  elapsed.Seconds() * refillRate     *)
(* is  elapsedMs * rate  micro-tokens, with no rounding.                   *)
(***************************************************************************)
EXTENDS Integers, Sequences, FiniteSets, TLC

\* ------------------------------------------------------------ bounds
NumCallers == 2
MaxCalls == 3
TickMs == 250
MaxTicks == 4
MaxRequests == 2
MaxLongTicks == 1

\* One token, in micro-tokens.
TokenUnit == 1000000

Procs == 1..NumCallers
NoProc == 0

\* The rates WithRateLimit / NewRateLimiter are given, in milli-tokens per
\* second: 0.5, 1 and 2 requests per second.
Rates == {500, 1000, 2000}

Min(a, b) == IF a < b THEN a ELSE b

\* No call made yet, and no key set.
NoOp == [name |-> "none"]
NoneStored == [k \in {} |-> 0]

\* The goroutines using one cache: two callers and the maintenance task.
CacheWorkers == {1, 2}
Sweeper == 3

\* A cache user's record: at: its position; name, key, value, ttl: the
\* operation and its arguments; found, got, size: what it returned, and
\* atFound, atGot, atSize: what it would have returned done at once;
\* overwrote: a Set replaced an expired entry; expired: the keys the sweep
\* found expired; removed: the keys it removed; sawTorn: it read an entry
\* without a value; removedLive: it removed an entry that had not expired.
IdleOp ==
  [at |-> "idle", name |-> "none", key |-> "", value |-> "", ttl |-> 0,
   found |-> FALSE, got |-> "", size |-> 0,
   atFound |-> FALSE, atGot |-> "", atSize |-> 0,
   overwrote |-> FALSE, expired |-> {}, removed |-> {},
   sawTorn |-> FALSE, removedLive |-> FALSE]

VARIABLES
  now,         \* the wall clock, ms since the limiter was constructed
  ticks,       \* how often the clock has advanced
  tokens,      \* RateLimiter.tokens, micro-tokens
  maxTokens,   \* RateLimiter.maxTokens, micro-tokens
  refillRate,  \* RateLimiter.refillRate, milli-tokens per second
  lastRefill,  \* RateLimiter.lastRefill
  mu,          \* RateLimiter.mu: the caller holding it, or NoProc
  pc,          \* each caller's position
  ctxDone,     \* whether the caller's context is cancelled / past its deadline
  wakeAt,      \* when the caller's pending timer fires
  waitErr,     \* what the caller's last Wait returned: "nil" or "ctx"
  calls,       \* how many calls have been started
  granted,     \* history: the times at which Wait granted a token, in order
  wstat,       \* history, per caller, of its current Wait call
  retryConfig, \* Client.retryConfig
  hasCache,    \* whether Client.cache is set (not nil)
  cache,       \* the entries of the client's cache: key -> [value, expiresAt]
  req,         \* per caller, the doRequest call's arguments
  cacheKey,    \* per caller, doRequest's cacheKey
  attempt,     \* per caller, doRequest's loop counter
  lastErr,     \* per caller, doRequest's lastErr
  result,      \* per caller, what doRequest returned: [body, err]
  rstat,       \* history, per caller, of its current doRequest call
  op,          \* history: the last call of a policy function or cache method,
               \* with its arguments and what it returned
  stored,      \* history: per key, the last Set since a Delete or Clear
  closed,      \* whether the cache's Close has been called
  cacheMu,     \* the cache's lock: the goroutine holding it, or NoProc
  cacheOp,     \* per goroutine using the cache, its operation and position
  atomic       \* history: the cache had every operation taken effect at once

reqVars == <<retryConfig, hasCache, op, stored, closed, cacheMu, cacheOp, atomic, cache, req, cacheKey, attempt, lastErr, result, rstat>>
vars == <<now, ticks, tokens, maxTokens, refillRate, lastRefill, mu, pc, ctxDone,
          wakeAt, waitErr, calls, granted, wstat, reqVars>>

\* wstat[p]: sleeps: how many times the call slept; took: the tokens it
\* consumed; uncapped: at its latest denial, the tokens the bucket would hold
\* had the refill not been capped.
NoStat == [sleeps |-> 0, took |-> 0, uncapped |-> -1]

\* ---------------------------------------------------------- RateLimiter

\* Mutant: the bucket starts empty.
NewRateLimiterEmpty(rps) ==
  [tokens |-> 0, maxTokens |-> rps * 1000, refillRate |-> rps, lastRefill |-> now]

\* NewRateLimiter(requestsPerSecond): all three fields are the rate.
NewRateLimiter(rps) ==
  [tokens |-> rps * 1000, maxTokens |-> rps * 1000, refillRate |-> rps, lastRefill |-> now]

Max(a, b) == IF a > b THEN a ELSE b

\* elapsed := now.Sub(r.lastRefill), ms.  Past the time that refills both a
\* whole token and the whole bucket a longer wait changes no comparison the
\* code makes, and the count is kept there (TLC's integers are 32 bits wide).
Elapsed == Min(now - lastRefill, Max(maxTokens, TokenUnit) \div refillRate + 1)

\* tokens += elapsed * refillRate, before the cap.
Uncapped == tokens + Elapsed * refillRate

\* Mutant: the refill is not capped at maxTokens.
RefilledNoCap == Uncapped

\* ... if r.tokens > r.maxTokens { r.tokens = r.maxTokens }
Refilled == Min(Uncapped, maxTokens)

\* time.Duration((1-r.tokens)/r.refillRate*1000) * time.Millisecond: whole
\* milliseconds, truncated.
WaitTime(tok) == (TokenUnit - tok) \div refillRate

\* r.mu.Lock()
WaitLock(p) ==
  /\ pc[p] = "wait_lock"
  /\ mu = NoProc
  /\ mu' = p
  /\ pc' = [pc EXCEPT ![p] = "wait_crit"]
  /\ UNCHANGED <<now, ticks, tokens, maxTokens, refillRate, lastRefill, ctxDone,
                 wakeAt, waitErr, calls, granted, wstat>>
  /\ UNCHANGED reqVars

\* Mutant: the sleeping path returns without Unlock.
WaitRefillHoldsLock(p) ==
  /\ pc[p] = "wait_crit"
  /\ mu = p
  /\ lastRefill' = now
  /\ IF Refilled >= TokenUnit
       THEN /\ tokens' = Refilled - TokenUnit
            /\ mu' = NoProc
            /\ pc' = [pc EXCEPT ![p] = "wait_ret"]
            /\ waitErr' = [waitErr EXCEPT ![p] = "nil"]
            /\ wstat' = [wstat EXCEPT ![p].took = @ + 1]
            /\ UNCHANGED wakeAt
       ELSE /\ tokens' = Refilled
            /\ mu' = p
            /\ pc' = [pc EXCEPT ![p] = "wait_sleep"]
            /\ wakeAt' = [wakeAt EXCEPT ![p] = now + WaitTime(Refilled)]
            /\ wstat' = [wstat EXCEPT ![p].sleeps = @ + 1, ![p].uncapped = Uncapped]
            /\ UNCHANGED waitErr
  /\ UNCHANGED <<now, ticks, maxTokens, refillRate, ctxDone, calls>>
  /\ UNCHANGED reqVars

\* The refill-and-check step, under the lock: the token is granted and Wait
\* returns nil, or the caller goes to sleep for the deficit.
WaitRefill(p) ==
  /\ pc[p] = "wait_crit"
  /\ mu = p
  /\ lastRefill' = now
  /\ mu' = NoProc
  /\ IF Refilled >= TokenUnit
       THEN /\ tokens' = Refilled - TokenUnit
            /\ pc' = [pc EXCEPT ![p] = "wait_ret"]
            /\ waitErr' = [waitErr EXCEPT ![p] = "nil"]
            /\ wstat' = [wstat EXCEPT ![p].took = @ + 1]
            /\ UNCHANGED wakeAt
       ELSE /\ tokens' = Refilled
            /\ pc' = [pc EXCEPT ![p] = "wait_sleep"]
            /\ wakeAt' = [wakeAt EXCEPT ![p] = now + WaitTime(Refilled)]
            /\ wstat' = [wstat EXCEPT ![p].sleeps = @ + 1, ![p].uncapped = Uncapped]
            /\ UNCHANGED waitErr
  /\ UNCHANGED <<now, ticks, maxTokens, refillRate, ctxDone, calls>>
  /\ UNCHANGED reqVars

\* case <-time.After(waitTime): the loop is entered again.
WaitTimer(p) ==
  /\ pc[p] = "wait_sleep"
  /\ now >= wakeAt[p]
  /\ pc' = [pc EXCEPT ![p] = "wait_lock"]
  /\ wakeAt' = [wakeAt EXCEPT ![p] = 0]
  /\ UNCHANGED <<now, ticks, tokens, maxTokens, refillRate, lastRefill, mu, ctxDone,
                 waitErr, calls, granted, wstat>>
  /\ UNCHANGED reqVars

\* Mutant: cancellation is seen only once the timer has fired.
WaitCtxDoneLate(p) ==
  /\ pc[p] = "wait_sleep"
  /\ ctxDone[p]
  /\ now >= wakeAt[p]
  /\ pc' = [pc EXCEPT ![p] = "wait_ret"]
  /\ waitErr' = [waitErr EXCEPT ![p] = "ctx"]
  /\ UNCHANGED <<now, ticks, tokens, maxTokens, refillRate, lastRefill, mu, ctxDone,
                 wakeAt, calls, granted, wstat>>
  /\ UNCHANGED reqVars

\* case <-ctx.Done(): return ctx.Err()
WaitCtxDone(p) ==
  /\ pc[p] = "wait_sleep"
  /\ ctxDone[p]
  /\ pc' = [pc EXCEPT ![p] = "wait_ret"]
  /\ waitErr' = [waitErr EXCEPT ![p] = "ctx"]
  /\ UNCHANGED <<now, ticks, tokens, maxTokens, refillRate, lastRefill, mu, ctxDone,
                 wakeAt, calls, granted, wstat>>
  /\ UNCHANGED reqVars

\* History: the time of each grant is recorded.
RecordGrant(p) ==
  granted' = IF pc'[p] = "wait_ret" THEN Append(granted, now) ELSE granted

\* ------------------------------------------------------ the environment

\* The clock advances.
Tick ==
  /\ ticks < MaxTicks
  /\ now' = now + TickMs
  /\ ticks' = ticks + 1
  /\ UNCHANGED <<tokens, maxTokens, refillRate, lastRefill, mu, pc, ctxDone,
                 wakeAt, waitErr, calls, granted, wstat>>
  /\ UNCHANGED reqVars

\* The caller's context is cancelled, or its deadline passes, during a call.
Cancel(p) ==
  /\ pc[p] \notin {"idle", "done"}
  /\ ~ctxDone[p]
  /\ ctxDone' = [ctxDone EXCEPT ![p] = TRUE]
  /\ UNCHANGED <<now, ticks, tokens, maxTokens, refillRate, lastRefill, mu, pc,
                 wakeAt, waitErr, calls, granted, wstat>>
  /\ UNCHANGED reqVars

\* -------------------------------------------------------- errors (Go values)

\* nil
NoErr == [kind |-> "nil"]

\* What http.Client.Do fails with.  A timeout is a net.Error whose Timeout()
\* is true; a refused connection is a net.Error whose Timeout() is false; a
\* cancelled request carries the context's error.
NetTimeout == [kind |-> "net", timeout |-> TRUE]
NetRefused == [kind |-> "net", timeout |-> FALSE]
CtxErr == [kind |-> "context"]

\* fmt.Errorf(msg + ": %w", cause): a *fmt.wrapError, which has Error and
\* Unwrap only.
Wrap(msg, cause) == [kind |-> "wrapped", msg |-> msg, cause |-> cause]

\* fmt.Errorf("unexpected status code: %d", code)
StatusErr(code) == [kind |-> "status", code |-> code]

\* fmt.Errorf("failed to read response: %w", err)
ReadErr == Wrap("failed to read response", [kind |-> "io"])

\* err.(net.Error): the assertion looks at the value's own type, not at what
\* it wraps.
IsNetError(err) == err.kind = "net"

\* ----------------------------------------------------------- retry policy

\* isTemporaryNetErr: false for *net.OpError, *net.DNSError and everything else.
isTemporaryNetErr(err) == FALSE

isTemporaryNetworkError(err) ==
  IF IsNetError(err) THEN err.timeout \/ isTemporaryNetErr(err) ELSE FALSE

isTimeoutError(err) ==
  IF IsNetError(err) THEN err.timeout ELSE FALSE

RetryableStatuses == {429, 500, 502, 503, 504}

\* Mutant: only the server errors are retried.
shouldRetryServerErrors(err, statusCode) ==
  IF err # NoErr /\ (isTemporaryNetworkError(err) \/ isTimeoutError(err))
    THEN TRUE
    ELSE statusCode >= 500

\* Mutant: every client or server error status is retried.
shouldRetryAnyError(err, statusCode) == statusCode >= 400

shouldRetry(err, statusCode) ==
  IF err # NoErr /\ (isTemporaryNetworkError(err) \/ isTimeoutError(err))
    THEN TRUE
    ELSE statusCode \in RetryableStatuses

\* RetryConfig.  Durations are in ms; Multiplier is in tenths and Jitter in
\* hundredths.
DefaultRetryConfig ==
  [MaxRetries |-> 3, InitialBackoff |-> 500, MaxBackoff |-> 30000,
   Multiplier |-> 20, Jitter |-> 10]

NoRetry ==
  [MaxRetries |-> 0, InitialBackoff |-> 0, MaxBackoff |-> 0, Multiplier |-> 0, Jitter |-> 0]

\* Mutant: the loop runs for i <= int(exp).
RECURSIVE powOffByOne(_, _)
powOffByOne(base, exp) ==
  IF exp < 0 THEN <<1, 1>>
  ELSE LET r == powOffByOne(base, exp - 1) IN <<r[1] * base, r[2] * 10>>

\* pow(base, exp): result *= base, int(exp) times.  The value is the pair
\* <<numerator, denominator>>, base being in tenths.
RECURSIVE pow(_, _)
pow(base, exp) ==
  IF exp <= 0 THEN <<1, 1>>
  ELSE LET r == pow(base, exp - 1) IN <<r[1] * base, r[2] * 10>>

\* Mutant: the jitter is rand.Float64()*2, not rand.Float64()*2 - 1.
calculateBackoffOneSided(c, n, u) ==
  LET pw == pow(c.Multiplier, n)
      backoff == (c.InitialBackoff * pw[1]) \div pw[2]
      jittered == IF c.Jitter > 0
                    THEN (backoff * 10000 + backoff * c.Jitter * (2 * u)) \div 10000
                    ELSE backoff
  IN IF jittered > c.MaxBackoff THEN c.MaxBackoff ELSE jittered

\* Mutant: the cap is applied before the jitter is added.
calculateBackoffCapFirst(c, n, u) ==
  LET pw == pow(c.Multiplier, n)
      backoff == (c.InitialBackoff * pw[1]) \div pw[2]
      capped == IF backoff > c.MaxBackoff THEN c.MaxBackoff ELSE backoff
  IN IF c.Jitter > 0
       THEN (capped * 10000 + capped * c.Jitter * (2 * u - 100)) \div 10000
       ELSE capped

\* calculateBackoff(attempt), with u (hundredths) the draw of rand.Float64():
\* the jitter is added first, the cap applied after it, and the float64 is
\* truncated to a Duration.
calculateBackoff(c, n, u) ==
  LET pw == pow(c.Multiplier, n)
      backoff == (c.InitialBackoff * pw[1]) \div pw[2]
      jittered == IF c.Jitter > 0
                    THEN (backoff * 10000 + backoff * c.Jitter * (2 * u - 100)) \div 10000
                    ELSE backoff
  IN IF jittered > c.MaxBackoff THEN c.MaxBackoff ELSE jittered

\* ------------------------------------------------------------------ cache

\* The TTL NewMemoryCache was given (README: 10 minutes), and the one
\* doRequest passes to Set (5 minutes), in ms.
DefaultTTL == 600000
RequestTTL == 300000

\* Mutant: an entry never expires.
LiveForever(c, k) == k \in DOMAIN c

\* Whether Get would find key k: present and not yet expired.
Live(c, k) == k \in DOMAIN c /\ now < c[k].expiresAt

\* Mutant: an expired entry is a miss, but stays.
CacheGetKeepsExpired(c, k) ==
  IF Live(c, k)
    THEN [found |-> TRUE, value |-> c[k].value, cache |-> c]
    ELSE [found |-> FALSE, value |-> <<>>, cache |-> c]

\* Cache.Get(key): the value and found; an expired entry is a miss and is
\* removed.
CacheGet(c, k) ==
  IF Live(c, k)
    THEN [found |-> TRUE, value |-> c[k].value, cache |-> c]
    ELSE [found |-> FALSE, value |-> <<>>,
          cache |-> [x \in DOMAIN c \ {k} |-> c[x]]]

\* Mutant: a key already present keeps its entry.
CacheSetIfAbsent(c, k, v, ttl) ==
  [x \in DOMAIN c \cup {k} |->
     IF x = k /\ k \notin DOMAIN c
       THEN [value |-> v, expiresAt |-> now + (IF ttl = 0 THEN DefaultTTL ELSE ttl)]
       ELSE c[x]]

\* Mutant: a ttl of zero is taken as it is.
CacheSetZeroTTL(c, k, v, ttl) ==
  [x \in DOMAIN c \cup {k} |->
     IF x = k THEN [value |-> v, expiresAt |-> now + ttl] ELSE c[x]]

\* Cache.Set(key, value, ttl): a ttl of zero is the default TTL.
CacheSet(c, k, v, ttl) ==
  [x \in DOMAIN c \cup {k} |->
     IF x = k
       THEN [value |-> v, expiresAt |-> now + (IF ttl = 0 THEN DefaultTTL ELSE ttl)]
       ELSE c[x]]

EmptyCache == [x \in {} |-> 0]

\* Mutant: Delete empties the cache.
CacheDeleteAll(c, k) == EmptyCache

\* Mutant: the sweep removes every entry.
CacheCleanupAll(c) == EmptyCache

\* Mutant: the sweep removes nothing.
CacheCleanupNothing(c) == c

\* Cache.Delete(key), Cache.Clear(), the periodic sweep (cleanup), which
\* removes every entry whose expiresAt has passed, and Cache.Size().
CacheDelete(c, k) == [x \in DOMAIN c \ {k} |-> c[x]]
CacheClear(c) == EmptyCache
CacheCleanup(c) == [x \in {k \in DOMAIN c : Live(c, k)} |-> c[x]]
CacheSize(c) == Cardinality(DOMAIN c)

\* ---------------------------------------------------------------- Client

\* defaultCurrency
Currency == "USD"

Methods == {"GET", "POST"}

\* url.Values: nil, or the pairs set.  With at most one pair the order
\* Encode sorts by does not show.
NilParams == <<"nil">>
ParamSets == {NilParams, <<"productCode=C1">>}

\* The arguments of a doRequest call (the body has no part in what follows).
Requests ==
  {r \in [method : Methods, path : {"/product/detail"}, params : ParamSets] :
     r.method = "GET" \/ r.params = NilParams}
NoReq == [method |-> "", path |-> "", params |-> NilParams]

\* buildCacheKey: method + ":" + currency + ":" + path, and "?" + the encoded
\* parameters unless params is nil.  Strings are kept as their pieces.
\* With every argument a sequence of pieces, and params already encoded:
KeyString(method, currency, path, params) ==
  method \o <<":">> \o currency \o <<":">> \o path
    \o (IF params # NilParams THEN <<"?">> \o params ELSE <<>>)

buildCacheKey(method, path, params) ==
  KeyString(<<method>>, <<Currency>>, <<path>>, params)

\* cacheKey := ""
EmptyKey == <<>>

\* Response bodies, and the nil []byte.
Bodies == {"r1", "r2"}
NilBody == "nil"

\* The statuses the transport answers with.
Statuses == {200, 400, 404, 429, 503}

\* What executeRequest can return: (respBody, statusCode, err).
Outcome(body, status, err) == [body |-> body, status |-> status, err |-> err]
Outcomes(p) ==
  \* http.Client.Do failed: status 0, the cause wrapped
  {Outcome(NilBody, 0, Wrap("request failed", cause)) :
     cause \in {NetTimeout, NetRefused} \cup (IF ctxDone[p] THEN {CtxErr} ELSE {})}
  \* io.ReadAll failed: the response's status, the cause wrapped
  \cup {Outcome(NilBody, st, ReadErr) : st \in {200, 404, 503}}
  \* a status other than 200
  \cup {Outcome(NilBody, st, StatusErr(st)) : st \in Statuses \ {200}}
  \* 200
  \cup {Outcome(b, 200, NoErr) : b \in Bodies}
NoOutcome == Outcome(NilBody, -1, NoErr)

\* The draws of rand.Float64(), in hundredths.
RandDraws == {0, 99}

NoResult == [body |-> NilBody, err |-> NoErr]

\* rstat[p]: attempts: transport attempts made; retryable: those that failed
\* with a retryable status; backoffs: backoff sleeps begun; tokens: limiter
\* tokens consumed; hit: served from the cache; last: the latest attempt's
\* outcome.
NoRStat == [attempts |-> 0, retryable |-> 0, timeouts |-> 0, backoffs |-> 0, tokens |-> 0,
            hit |-> FALSE, last |-> NoOutcome]

\* Mutant: the loop runs while attempt < MaxRetries.
LoopTopOffByOne(a, le, u) ==
  IF a >= retryConfig.MaxRetries
    THEN [pc |-> "done", wake |-> 0,
          result |-> [body |-> NilBody, err |-> Wrap("max retries exceeded", le)]]
    ELSE IF a > 0
      THEN [pc |-> "backoff", wake |-> now + calculateBackoff(retryConfig, a - 1, u),
            result |-> NoResult]
      ELSE [pc |-> "wait_lock", wake |-> 0, result |-> NoResult]

\* Mutant: the retry's backoff is computed for attempt, not attempt - 1.
LoopTopOneBased(a, le, u) ==
  IF a > retryConfig.MaxRetries
    THEN [pc |-> "done", wake |-> 0,
          result |-> [body |-> NilBody, err |-> Wrap("max retries exceeded", le)]]
    ELSE IF a > 0
      THEN [pc |-> "backoff", wake |-> now + calculateBackoff(retryConfig, a, u),
            result |-> NoResult]
      ELSE [pc |-> "wait_lock", wake |-> 0, result |-> NoResult]

\* Mutant: after the loop, lastErr is returned as it is.
LoopTopBareLastErr(a, le, u) ==
  IF a > retryConfig.MaxRetries
    THEN [pc |-> "done", wake |-> 0, result |-> [body |-> NilBody, err |-> le]]
    ELSE IF a > 0
      THEN [pc |-> "backoff", wake |-> now + calculateBackoff(retryConfig, a - 1, u),
            result |-> NoResult]
      ELSE [pc |-> "wait_lock", wake |-> 0, result |-> NoResult]

\* Mutant: a retry does not sleep first.
LoopTopNoBackoff(a, le, u) ==
  IF a > retryConfig.MaxRetries
    THEN [pc |-> "done", wake |-> 0,
          result |-> [body |-> NilBody, err |-> Wrap("max retries exceeded", le)]]
    ELSE [pc |-> "wait_lock", wake |-> 0, result |-> NoResult]

\* The head of doRequest's loop for attempt a, with lastErr le: past the last
\* retry the call returns "max retries exceeded"; a retry first sleeps for
\* calculateBackoff(a-1); the first attempt goes straight to the limiter.
LoopTop(a, le, u) ==
  IF a > retryConfig.MaxRetries
    THEN [pc |-> "done", wake |-> 0,
          result |-> [body |-> NilBody, err |-> Wrap("max retries exceeded", le)]]
    ELSE IF a > 0
      THEN [pc |-> "backoff", wake |-> now + calculateBackoff(retryConfig, a - 1, u),
            result |-> NoResult]
      ELSE [pc |-> "wait_lock", wake |-> 0, result |-> NoResult]

\* Mutant: a cached response is never served.
HitNever(key, got) == FALSE

\* if cached, ok := c.cache.Get(cacheKey); ok { return cached, nil }
Hit(key, got) == key # EmptyKey /\ got.found

\* doRequest is called with a fresh context: the cache is consulted, and on a
\* miss the loop is entered.
DoRequest(p, r) ==
  /\ pc[p] = "idle"
  /\ calls < MaxRequests
  /\ calls' = calls + 1
  /\ LET key == IF r.method = "GET" /\ hasCache
                  THEN buildCacheKey(r.method, r.path, r.params) ELSE EmptyKey
         got == CacheGet(cache, key)
         top == LoopTop(0, NoErr, 0)
     IN /\ req' = [req EXCEPT ![p] = r]
        /\ cacheKey' = [cacheKey EXCEPT ![p] = key]
        /\ IF Hit(key, got)
             THEN /\ pc' = [pc EXCEPT ![p] = "done"]
                  /\ result' = [result EXCEPT ![p] = [body |-> got.value, err |-> NoErr]]
                  /\ rstat' = [rstat EXCEPT ![p] = [NoRStat EXCEPT !.hit = TRUE]]
                  /\ UNCHANGED cache
             ELSE /\ pc' = [pc EXCEPT ![p] = top.pc]
                  /\ result' = [result EXCEPT ![p] = top.result]
                  /\ rstat' = [rstat EXCEPT ![p] = NoRStat]
                  /\ cache' = IF key # EmptyKey THEN got.cache ELSE cache
  /\ attempt' = [attempt EXCEPT ![p] = 0]
  /\ lastErr' = [lastErr EXCEPT ![p] = NoErr]
  /\ ctxDone' = [ctxDone EXCEPT ![p] = FALSE]
  /\ wstat' = [wstat EXCEPT ![p] = NoStat]
  /\ UNCHANGED <<now, ticks, tokens, maxTokens, refillRate, lastRefill, mu, wakeAt,
                 waitErr, granted, retryConfig, hasCache, op, stored, closed, cacheMu, cacheOp, atomic>>

\* sleep(ctx, waitTime): case <-timer.C; the limiter is asked next.
BackoffTimer(p) ==
  /\ pc[p] = "backoff"
  /\ now >= wakeAt[p]
  /\ pc' = [pc EXCEPT ![p] = "wait_lock"]
  /\ wakeAt' = [wakeAt EXCEPT ![p] = 0]
  /\ wstat' = [wstat EXCEPT ![p] = NoStat]
  /\ UNCHANGED <<now, ticks, tokens, maxTokens, refillRate, lastRefill, mu, ctxDone,
                 waitErr, calls, granted, reqVars>>

\* Mutant: the sleep's error is ignored and the loop goes on.
BackoffCtxDoneIgnored(p) ==
  /\ pc[p] = "backoff"
  /\ ctxDone[p]
  /\ pc' = [pc EXCEPT ![p] = "wait_lock"]
  /\ wstat' = [wstat EXCEPT ![p] = NoStat]
  /\ UNCHANGED <<now, ticks, tokens, maxTokens, refillRate, lastRefill, mu, ctxDone,
                 wakeAt, waitErr, calls, granted, reqVars>>

\* sleep(ctx, waitTime): case <-ctx.Done(); doRequest returns ctx.Err().
BackoffCtxDone(p) ==
  /\ pc[p] = "backoff"
  /\ ctxDone[p]
  /\ pc' = [pc EXCEPT ![p] = "done"]
  /\ result' = [result EXCEPT ![p] = [body |-> NilBody, err |-> CtxErr]]
  /\ UNCHANGED <<now, ticks, tokens, maxTokens, refillRate, lastRefill, mu, ctxDone,
                 wakeAt, waitErr, calls, granted, wstat, retryConfig, hasCache, op, stored, closed, cacheMu, cacheOp, atomic, cache,
                 req, cacheKey, attempt, lastErr, rstat>>

\* Mutant: Wait's error is ignored.
AfterWaitIgnoresErr(p) ==
  /\ pc[p] = "wait_ret"
  /\ pc' = [pc EXCEPT ![p] = "transport"]
  /\ rstat' = [rstat EXCEPT ![p].tokens = @ + wstat[p].took]
  /\ UNCHANGED <<now, ticks, tokens, maxTokens, refillRate, lastRefill, mu, ctxDone,
                 wakeAt, waitErr, calls, granted, wstat, retryConfig, hasCache, op, stored, closed, cacheMu, cacheOp, atomic, cache,
                 req, cacheKey, attempt, lastErr, result>>

\* if err := c.rateLimiter.Wait(ctx); err != nil { return nil, "rate limiter: %w" };
\* otherwise executeRequest is called.
AfterWait(p) ==
  /\ pc[p] = "wait_ret"
  /\ IF waitErr[p] = "ctx"
       THEN /\ pc' = [pc EXCEPT ![p] = "done"]
            /\ result' = [result EXCEPT ![p] =
                            [body |-> NilBody, err |-> Wrap("rate limiter", CtxErr)]]
       ELSE /\ pc' = [pc EXCEPT ![p] = "transport"]
            /\ UNCHANGED result
  /\ rstat' = [rstat EXCEPT ![p].tokens = @ + wstat[p].took]
  /\ UNCHANGED <<now, ticks, tokens, maxTokens, refillRate, lastRefill, mu, ctxDone,
                 wakeAt, waitErr, calls, granted, wstat, retryConfig, hasCache, op, stored, closed, cacheMu, cacheOp, atomic, cache,
                 req, cacheKey, attempt, lastErr>>

\* Mutant: a successful response is stored whatever the method.
StoreResponseAnyMethod(p, o) ==
  IF hasCache
    THEN CacheSet(cache, buildCacheKey(req[p].method, req[p].path, req[p].params),
                  o.body, RequestTTL)
    ELSE cache

\* Mutant: a successful response is not stored.
StoreResponseNever(p, o) == cache

\* if cacheKey != "" && c.cache != nil { c.cache.Set(cacheKey, respBody, 5*time.Minute) }
StoreResponse(p, o) ==
  IF cacheKey[p] # EmptyKey /\ hasCache
    THEN CacheSet(cache, cacheKey[p], o.body, RequestTTL)
    ELSE cache

\* client.Do failed with a timeout: executeRequest returns status 0 and the
\* wrapped error.
IsTimeoutOutcome(o) == o.status = 0 /\ o.err = Wrap("request failed", NetTimeout)

\* History: the attempt is counted, with whether it failed with a retryable
\* status or with a timeout, and whether a backoff sleep follows it.
Count(st, o, nextpc) ==
  [st EXCEPT !.attempts = @ + 1,
             !.retryable = IF o.err # NoErr /\ o.status \in RetryableStatuses
                             THEN @ + 1 ELSE @,
             !.timeouts = IF IsTimeoutOutcome(o) THEN @ + 1 ELSE @,
             !.backoffs = IF nextpc = "backoff" THEN @ + 1 ELSE @,
             !.last = o]

\* executeRequest returns o, and doRequest classifies it: a success is stored
\* in the cache and returned; a retryable failure goes round the loop; any
\* other failure is returned.
Transport(p, o) ==
  /\ pc[p] = "transport"
  /\ IF o.err # NoErr
       THEN /\ lastErr' = [lastErr EXCEPT ![p] = o.err]
            /\ UNCHANGED cache
            /\ IF shouldRetry(o.err, o.status)
                 THEN \E u \in RandDraws :
                        LET top == LoopTop(attempt[p] + 1, o.err, u)
                        IN /\ attempt' = [attempt EXCEPT ![p] = @ + 1]
                           /\ pc' = [pc EXCEPT ![p] = top.pc]
                           /\ wakeAt' = [wakeAt EXCEPT ![p] = top.wake]
                           /\ result' = [result EXCEPT ![p] = top.result]
                           /\ rstat' = [rstat EXCEPT ![p] = Count(@, o, top.pc)]
                 ELSE /\ pc' = [pc EXCEPT ![p] = "done"]
                      /\ result' = [result EXCEPT ![p] = [body |-> NilBody, err |-> o.err]]
                      /\ rstat' = [rstat EXCEPT ![p] = Count(@, o, "done")]
                      /\ UNCHANGED <<attempt, wakeAt>>
       ELSE /\ cache' = StoreResponse(p, o)
            /\ pc' = [pc EXCEPT ![p] = "done"]
            /\ result' = [result EXCEPT ![p] = [body |-> o.body, err |-> NoErr]]
            /\ rstat' = [rstat EXCEPT ![p] = Count(@, o, "done")]
            /\ UNCHANGED <<attempt, lastErr, wakeAt>>
  /\ UNCHANGED <<now, ticks, tokens, maxTokens, refillRate, lastRefill, mu, ctxDone,
                 waitErr, calls, granted, wstat, retryConfig, hasCache, op, stored, closed, cacheMu, cacheOp, atomic, req, cacheKey>>

\* The caller has its answer; its next call starts afresh.
Finish(p) ==
  /\ pc[p] = "done"
  /\ pc' = [pc EXCEPT ![p] = "idle"]
  /\ ctxDone' = [ctxDone EXCEPT ![p] = FALSE]
  /\ wakeAt' = [wakeAt EXCEPT ![p] = 0]
  /\ waitErr' = [waitErr EXCEPT ![p] = "nil"]
  /\ wstat' = [wstat EXCEPT ![p] = NoStat]
  /\ req' = [req EXCEPT ![p] = NoReq]
  /\ cacheKey' = [cacheKey EXCEPT ![p] = EmptyKey]
  /\ attempt' = [attempt EXCEPT ![p] = 0]
  /\ lastErr' = [lastErr EXCEPT ![p] = NoErr]
  /\ result' = [result EXCEPT ![p] = NoResult]
  /\ rstat' = [rstat EXCEPT ![p] = NoRStat]
  /\ UNCHANGED <<now, ticks, tokens, maxTokens, refillRate, lastRefill, mu, calls,
                 granted, retryConfig, hasCache, op, stored, closed, cacheMu, cacheOp, atomic, cache>>

\* The clock advances to the earliest pending timer.
TickToTimer ==
  /\ ticks < MaxTicks
  /\ \E p \in Procs :
       /\ pc[p] \in {"backoff", "wait_sleep"}
       /\ wakeAt[p] > now
       /\ \A q \in Procs :
            (pc[q] \in {"backoff", "wait_sleep"} /\ wakeAt[q] > now) => wakeAt[p] <= wakeAt[q]
       /\ now' = wakeAt[p]
  /\ ticks' = ticks + 1
  /\ UNCHANGED <<tokens, maxTokens, refillRate, lastRefill, mu, pc, ctxDone,
                 wakeAt, waitErr, calls, granted, wstat, reqVars>>

\* Between calls, the clock advances by the lifetime of a cached response.
TickTTL ==
  /\ ticks < MaxTicks
  /\ now < MaxLongTicks * RequestTTL
  /\ \A p \in Procs : pc[p] = "idle"
  /\ now' = now + RequestTTL
  /\ ticks' = ticks + 1
  /\ UNCHANGED <<tokens, maxTokens, refillRate, lastRefill, mu, pc, ctxDone,
                 wakeAt, waitErr, calls, granted, wstat, reqVars>>

\* The retry configurations a client is given (WithRetryConfig).
MaxRetriesBound == 2
RetryConfigs ==
  {[DefaultRetryConfig EXCEPT !.MaxRetries = n] : n \in {-1, MaxRetriesBound}} \cup {NoRetry}

\* The rate a client is given (WithRateLimit): 1 per second, with which a
\* retry meets an empty bucket.
ClientRates == {1000}

\* The callers of doRequest.  In Spec the calls come one after another; the
\* limiter's concurrent callers are SpecRL's.
Requesters == {1}

\* --------------------------------------- callers of Wait (ratelimit_test.go)

\* A caller calls rl.Wait(ctx) with a fresh context.
WaitCall(p) ==
  /\ pc[p] = "idle"
  /\ calls < MaxCalls
  /\ calls' = calls + 1
  /\ pc' = [pc EXCEPT ![p] = "wait_lock"]
  /\ ctxDone' = [ctxDone EXCEPT ![p] = FALSE]
  /\ wstat' = [wstat EXCEPT ![p] = NoStat]
  /\ UNCHANGED <<now, ticks, tokens, maxTokens, refillRate, lastRefill, mu,
                 wakeAt, waitErr, granted>>
  /\ UNCHANGED reqVars

\* Wait has returned to its caller.
WaitReturned(p) ==
  /\ pc[p] = "wait_ret"
  /\ pc' = [pc EXCEPT ![p] = "idle"]
  /\ wakeAt' = [wakeAt EXCEPT ![p] = 0]
  /\ UNCHANGED <<now, ticks, tokens, maxTokens, refillRate, lastRefill, mu, ctxDone,
                 waitErr, calls, granted, wstat>>
  /\ UNCHANGED reqVars

InitRL ==
  /\ now = 0
  /\ ticks = 0
  /\ \E rps \in Rates :
       /\ tokens = NewRateLimiter(rps).tokens
       /\ maxTokens = NewRateLimiter(rps).maxTokens
       /\ refillRate = NewRateLimiter(rps).refillRate
       /\ lastRefill = NewRateLimiter(rps).lastRefill
  /\ mu = NoProc
  /\ pc = [p \in Procs |-> "idle"]
  /\ ctxDone = [p \in Procs |-> FALSE]
  /\ wakeAt = [p \in Procs |-> 0]
  /\ waitErr = [p \in Procs |-> "nil"]
  /\ calls = 0
  /\ granted = <<>>
  /\ wstat = [p \in Procs |-> NoStat]
  /\ retryConfig = DefaultRetryConfig
  /\ hasCache = FALSE
  /\ cache = EmptyCache
  /\ req = [p \in Procs |-> NoReq]
  /\ cacheKey = [p \in Procs |-> EmptyKey]
  /\ attempt = [p \in Procs |-> 0]
  /\ lastErr = [p \in Procs |-> NoErr]
  /\ result = [p \in Procs |-> NoResult]
  /\ rstat = [p \in Procs |-> NoRStat]
  /\ op = NoOp
  /\ stored = NoneStored
  /\ closed = FALSE
  /\ cacheMu = NoProc
  /\ cacheOp = [w \in CacheWorkers \cup {Sweeper} |-> IdleOp]
  /\ atomic = EmptyCache

NextRL ==
  \/ Tick
  \/ \E p \in Procs : WaitCall(p)
  \/ \E p \in Procs : WaitLock(p)
  \/ \E p \in Procs : WaitRefill(p) /\ RecordGrant(p)
  \/ \E p \in Procs : WaitTimer(p)
  \/ \E p \in Procs : WaitCtxDone(p)
  \/ \E p \in Procs : WaitReturned(p)
  \/ \E p \in Procs : Cancel(p)

SpecRL == InitRL /\ [][NextRL]_vars

\* rl.Wait(ctx) is called with a context that is already cancelled.
WaitCallCancelled(p) ==
  /\ pc[p] = "idle"
  /\ calls < MaxCalls
  /\ calls' = calls + 1
  /\ pc' = [pc EXCEPT ![p] = "wait_lock"]
  /\ ctxDone' = [ctxDone EXCEPT ![p] = TRUE]
  /\ wstat' = [wstat EXCEPT ![p] = NoStat]
  /\ UNCHANGED <<now, ticks, tokens, maxTokens, refillRate, lastRefill, mu,
                 wakeAt, waitErr, granted>>
  /\ UNCHANGED reqVars

\* Callers of Wait whose contexts are cancelled before they call.
NextCancelled ==
  \/ Tick
  \/ \E p \in Procs : WaitCallCancelled(p)
  \/ \E p \in Procs : WaitLock(p)
  \/ \E p \in Procs : WaitRefill(p) /\ RecordGrant(p)
  \/ \E p \in Procs : WaitTimer(p)
  \/ \E p \in Procs : WaitCtxDone(p)
  \/ \E p \in Procs : WaitReturned(p)

SpecCancelled == InitRL /\ [][NextCancelled]_vars

\* NewClient(opts...): a limiter, a retry configuration and, with WithCache,
\* a cache.
Init ==
  /\ now = 0
  /\ ticks = 0
  /\ \E rps \in ClientRates :
       /\ tokens = NewRateLimiter(rps).tokens
       /\ maxTokens = NewRateLimiter(rps).maxTokens
       /\ refillRate = NewRateLimiter(rps).refillRate
       /\ lastRefill = NewRateLimiter(rps).lastRefill
  /\ mu = NoProc
  /\ pc = [p \in Procs |-> "idle"]
  /\ ctxDone = [p \in Procs |-> FALSE]
  /\ wakeAt = [p \in Procs |-> 0]
  /\ waitErr = [p \in Procs |-> "nil"]
  /\ calls = 0
  /\ granted = <<>>
  /\ wstat = [p \in Procs |-> NoStat]
  /\ retryConfig \in RetryConfigs
  /\ hasCache \in BOOLEAN
  /\ cache = EmptyCache
  /\ req = [p \in Procs |-> NoReq]
  /\ cacheKey = [p \in Procs |-> EmptyKey]
  /\ attempt = [p \in Procs |-> 0]
  /\ lastErr = [p \in Procs |-> NoErr]
  /\ result = [p \in Procs |-> NoResult]
  /\ rstat = [p \in Procs |-> NoRStat]
  /\ op = NoOp
  /\ stored = NoneStored
  /\ closed = FALSE
  /\ cacheMu = NoProc
  /\ cacheOp = [w \in CacheWorkers \cup {Sweeper} |-> IdleOp]
  /\ atomic = EmptyCache

Next ==
  \/ TickToTimer
  \/ TickTTL
  \/ \E p \in Requesters : \E r \in Requests : DoRequest(p, r)
  \/ \E p \in Requesters : BackoffTimer(p)
  \/ \E p \in Requesters : BackoffCtxDone(p)
  \/ \E p \in Requesters : WaitLock(p)
  \/ \E p \in Requesters : WaitRefill(p) /\ UNCHANGED granted
  \/ \E p \in Requesters : WaitTimer(p)
  \/ \E p \in Requesters : WaitCtxDone(p)
  \/ \E p \in Requesters : AfterWait(p)
  \/ \E p \in Requesters : \E o \in Outcomes(p) : Transport(p, o)
  \/ \E p \in Requesters : Finish(p)
  \/ \E p \in Requesters : Cancel(p)

Spec == Init /\ [][Next]_vars

\* Concurrent callers of doRequest on one Client: two callers may each have
\* a call in progress, all on the client's one limiter and cache.  The
\* server answers with a body or with 503, the calls are GETs of one
\* product, and as many calls are made as there are callers.
SharedCallers == {1, 2}

InitShared ==
  Init /\ retryConfig \in {NoRetry, [DefaultRetryConfig EXCEPT !.MaxRetries = MaxRetriesBound]}

NextShared ==
  \/ TickToTimer
  \/ \E p \in SharedCallers : \E r \in {q \in Requests : q.method = "GET" /\ q.params # NilParams} :
       calls < Cardinality(SharedCallers) /\ DoRequest(p, r)
  \/ \E p \in SharedCallers : BackoffTimer(p)
  \/ \E p \in SharedCallers : BackoffCtxDone(p)
  \/ \E p \in SharedCallers : WaitLock(p)
  \/ \E p \in SharedCallers : WaitRefill(p) /\ UNCHANGED granted
  \/ \E p \in SharedCallers : WaitTimer(p)
  \/ \E p \in SharedCallers : WaitCtxDone(p)
  \/ \E p \in SharedCallers : AfterWait(p)
  \/ \E p \in SharedCallers : \E o \in {Outcome("r1", 200, NoErr), Outcome(NilBody, 503, StatusErr(503))} :
       Transport(p, o)
  \/ \E p \in SharedCallers : Finish(p)
  \/ \E p \in SharedCallers : Cancel(p)

SpecShared == InitShared /\ [][NextShared]_vars

\* ------------------------------------ callers of the retry policy functions

\* The variables of the limiter and its callers, and those of a client's calls.
limiterVars == <<tokens, maxTokens, refillRate, lastRefill, mu, pc, ctxDone, wakeAt,
                 waitErr, calls, granted, wstat>>
callVars == <<retryConfig, hasCache, req, cacheKey, attempt, lastErr, result, rstat>>

\* The errors and statuses shouldRetry is called with (retry_test.go, and
\* what executeRequest returns).
PolicyErrs ==
  {NoErr, NetTimeout, NetRefused, CtxErr, [kind |-> "io"], ReadErr,
   Wrap("request failed", NetTimeout), Wrap("request failed", NetRefused),
   Wrap("request failed", CtxErr)}
PolicyStatuses == {0, 200, 201, 400, 401, 403, 404, 429, 500, 502, 503, 504}

\* shouldRetry(err, statusCode) is called.
CallShouldRetry(err, statusCode) ==
  /\ op' = [name |-> "shouldRetry", err |-> err, statusCode |-> statusCode,
            out |-> shouldRetry(err, statusCode)]
  /\ UNCHANGED <<now, ticks, limiterVars, callVars, cache, stored, closed, cacheMu, cacheOp, atomic>>

\* The configurations calculateBackoff is called on (retry_test.go and
\* DefaultRetryConfig; Multiplier in tenths, Jitter in hundredths), the
\* attempt indexes and the draws of rand.Float64().
MaxAttemptIndex == 3
BackoffConfigs ==
  [MaxRetries : {3}, InitialBackoff : {100, 500}, MaxBackoff : {320, 1000, 30000},
   Multiplier : {5, 10, 15, 20}, Jitter : {0, 10, 100}]
PolicyDraws == RandDraws \cup {30, 50}

\* c.calculateBackoff(0) is called, as before doRequest's first retry.
CallCalculateBackoff(c, u) ==
  /\ op' = [name |-> "calculateBackoff", c |-> c, attempt |-> 0, u |-> u,
            out |-> calculateBackoff(c, 0, u), prev |-> 0]
  /\ UNCHANGED <<now, ticks, limiterVars, callVars, cache, stored, closed, cacheMu, cacheOp, atomic>>

\* c.calculateBackoff is called for the next attempt index; prev is what it
\* returned for the one before.
CallCalculateBackoffNext(u) ==
  /\ op.name = "calculateBackoff"
  /\ op.attempt < MaxAttemptIndex
  /\ op' = [op EXCEPT !.attempt = @ + 1, !.u = u,
                      !.out = calculateBackoff(op.c, op.attempt + 1, u),
                      !.prev = op.out]
  /\ UNCHANGED <<now, ticks, limiterVars, callVars, cache, stored, closed, cacheMu, cacheOp, atomic>>

\* The package's sentinel errors (errors.New values) and *APIError.
ErrRateLimited == [kind |-> "errorString", s |-> "lcsc: rate limit exceeded"]
ErrProductNotFound == [kind |-> "errorString", s |-> "lcsc: product not found"]
ErrInternalServer == [kind |-> "errorString", s |-> "lcsc: internal server error"]
ErrServiceUnavailable == [kind |-> "errorString", s |-> "lcsc: service unavailable"]
APIError(code, message) == [kind |-> "APIError", Code |-> code, Message |-> message]

\* Mutant: every code gives an *APIError.
errorFromCodeNoSentinels(code, message) == APIError(code, message)

\* errorFromCode(code, message)
errorFromCode(code, message) ==
  CASE code = 404 -> ErrProductNotFound
    [] code = 429 -> ErrRateLimited
    [] code = 500 -> ErrInternalServer
    [] code = 503 -> ErrServiceUnavailable
    [] OTHER -> APIError(code, message)

\* The bodies parseResponse is given: bytes that are not a JSON object, or
\* an envelope with its code (0 when the field is absent), its message and
\* its result: absent, an object the target decodes, or one it does not.
EnvelopeCodes == {0, 200, 201, 400, 401, 404, 429, 500, 503}
EnvelopeMessages == {"", "error"}
EnvelopeResults == {"absent", "ok", "mismatch"}
NotJSON == [json |-> FALSE]
Envelopes ==
  [json : {TRUE}, code : EnvelopeCodes, message : EnvelopeMessages,
   result : EnvelopeResults]
ResponseBodies == {NotJSON} \cup Envelopes

\* c.parseResponse(body, result): the error it returns; hasResult is whether
\* result is non-nil.
parseResponse(body, hasResult) ==
  IF ~body.json
    THEN Wrap("failed to parse response", [kind |-> "json"])
    ELSE IF body.code # 200
      THEN errorFromCode(body.code, body.message)
      ELSE IF hasResult /\ body.result = "mismatch"
        THEN Wrap("failed to parse result", [kind |-> "json"])
        ELSE NoErr

\* c.parseResponse(body, result) is called.
CallParseResponse(body, hasResult) ==
  /\ op' = [name |-> "parseResponse", body |-> body, hasResult |-> hasResult,
            out |-> parseResponse(body, hasResult)]
  /\ UNCHANGED <<now, ticks, limiterVars, callVars, cache, stored, closed, cacheMu, cacheOp, atomic>>

InitPolicy == InitRL /\ refillRate = 1000

NextPolicy ==
  \/ \E err \in PolicyErrs : \E statusCode \in PolicyStatuses :
       CallShouldRetry(err, statusCode)
  \/ \E c \in BackoffConfigs : \E u \in PolicyDraws : CallCalculateBackoff(c, u)
  \/ \E u \in PolicyDraws : CallCalculateBackoffNext(u)
  \/ \E body \in ResponseBodies : \E hasResult \in BOOLEAN :
       CallParseResponse(body, hasResult)

SpecPolicy == InitPolicy /\ [][NextPolicy]_vars

\* ------------------------------------------- products.go and models.go

\* strings.TrimSpace, on a sequence of characters.
RECURSIVE TrimLeft(_)
TrimLeft(str) ==
  IF str # <<>> /\ Head(str) = " " THEN TrimLeft(Tail(str)) ELSE str
RECURSIVE TrimRight(_)
TrimRight(str) ==
  IF str # <<>> /\ str[Len(str)] = " "
    THEN TrimRight(SubSeq(str, 1, Len(str) - 1)) ELSE str
TrimSpace(str) == TrimRight(TrimLeft(str))

\* getCacheKeySearch and getCacheKeyProduct: "search:%s:%s" and
\* "product:%s:%s" of the currency and the keyword or product code.
getCacheKeySearch(keyword) == <<"search", ":", Currency, ":">> \o keyword
getCacheKeyProduct(productCode) == <<"product", ":", Currency, ":">> \o productCode

\* A float64: a number, in tenths, or not a number.
Float(x) == [nan |-> FALSE, x |-> x]
NaN == [nan |-> TRUE, x |-> 0]

\* strconv.ParseFloat(str, 64): the strings used, "NaN" among those it
\* accepts.
ParseFloat(str) ==
  CASE str = "1.5" -> [ok |-> TRUE, f |-> Float(15)]
    [] str = "NaN" -> [ok |-> TRUE, f |-> NaN]
    [] OTHER -> [ok |-> FALSE, f |-> Float(0)]

\* FlexFloat64.UnmarshalJSON: a JSON number, or a string ParseFloat accepts.
FlexUnmarshalJSON(tok) ==
  IF tok.t = "num" THEN [ok |-> TRUE, f |-> Float(tok.v)]
  ELSE ParseFloat(tok.v)

\* json.Unmarshal into a Product: its code and the prices of its price list.
UnmarshalProduct(j) ==
  LET prices == [i \in DOMAIN j.productPriceList |->
                   FlexUnmarshalJSON(j.productPriceList[i])]
  IN [ok |-> \A i \in DOMAIN prices : prices[i].ok,
      v |-> [ProductCode |-> j.productCode,
             ProductPriceList |-> [i \in DOMAIN prices |-> prices[i].f]]]

\* json.Marshal of a Product: a float64 is written as a number, and one that
\* is not a number is an error.
MarshalProduct(v) ==
  [ok |-> \A i \in DOMAIN v.ProductPriceList : ~v.ProductPriceList[i].nan,
   j |-> [productCode |-> v.ProductCode,
          productPriceList |-> [i \in DOMAIN v.ProductPriceList |->
                                  [t |-> "num", v |-> v.ProductPriceList[i].x]]]]

\* json.Marshal and json.Unmarshal of a SearchResponse, whose fields have no
\* tags.
MarshalSearchResponse(v) ==
  [ok |-> \A i \in DOMAIN v.Products : MarshalProduct(v.Products[i]).ok,
   j |-> [Products |-> [i \in DOMAIN v.Products |-> MarshalProduct(v.Products[i]).j],
          TotalCount |-> v.TotalCount, DirectMatchCode |-> v.DirectMatchCode]]
UnmarshalSearchResponse(j) ==
  [ok |-> \A i \in DOMAIN j.Products : UnmarshalProduct(j.Products[i]).ok,
   v |-> [Products |-> [i \in DOMAIN j.Products |-> UnmarshalProduct(j.Products[i]).v],
          TotalCount |-> j.TotalCount, DirectMatchCode |-> j.DirectMatchCode]]

\* What the server's bodies hold: an envelope with code 200 whose result has
\* one product with one price break, its price a number or the string "NaN".
ProductJSON(b) ==
  [productCode |-> "C1",
   productPriceList |-> IF b = "r1" THEN << [t |-> "num", v |-> 20] >>
                                    ELSE << [t |-> "str", v |-> "NaN"] >>]
TipJSON(b) == IF b = "r1" THEN "C1" ELSE ""

\* Bodies the server may also send with status 200: bytes that are not JSON,
\* and an envelope whose code is 404.
ErrorBodies == {"bad", "e404"}
EnvelopeOf(b) ==
  CASE b = "bad" -> NotJSON
    [] b = "e404" -> [json |-> TRUE, code |-> 404, message |-> "", result |-> "absent"]
    [] OTHER -> [json |-> TRUE, code |-> 200, message |-> "", result |-> "ok"]

\* The error of c.parseResponse(body, &target) for body b.
ParseErr(b) ==
  IF parseResponse(EnvelopeOf(b), TRUE) # NoErr
    THEN parseResponse(EnvelopeOf(b), TRUE)
    ELSE IF UnmarshalProduct(ProductJSON(b)).ok
      THEN NoErr ELSE Wrap("failed to parse result", [kind |-> "json"])

\* KeywordSearch after doRequest: parseResponse into the wrapper, and the
\* SearchResponse built from it.
SearchResult(b) ==
  LET p == UnmarshalProduct(ProductJSON(b))
  IN [err |-> ParseErr(b),
      v |-> [Products |-> <<p.v>>, TotalCount |-> 1, DirectMatchCode |-> TipJSON(b)]]

\* GetProductDetails after doRequest: parseResponse into the Product.
DetailResult(b) ==
  LET p == UnmarshalProduct(ProductJSON(b))
  IN [err |-> ParseErr(b), v |-> p.v]

\* The two calls: what each is given, its cache key, the request it makes,
\* and how it encodes and decodes its result.
ProductCalls == {"KeywordSearch", "GetProductDetails"}
Keywords == {<<"A">>, <<" ", "A">>, <<" ">>}
ProductCodes == {<<"C", "1">>, <<"C", "1", " ">>, <<>>}
ArgsOf(name) == IF name = "KeywordSearch" THEN Keywords ELSE ProductCodes
KeyFor(name, arg) ==
  IF name = "KeywordSearch" THEN getCacheKeySearch(arg) ELSE getCacheKeyProduct(arg)
RequestFor(name, arg) ==
  IF name = "KeywordSearch"
    THEN [method |-> "POST", path |-> "/search/v2/global", params |-> NilParams]
    ELSE [method |-> "GET", path |-> "/product/detail",
          params |-> <<"productCode=">> \o arg]
ResultFor(name, b) == IF name = "KeywordSearch" THEN SearchResult(b) ELSE DetailResult(b)
MarshalFor(name, v) ==
  IF name = "KeywordSearch" THEN MarshalSearchResponse(v) ELSE MarshalProduct(v)
UnmarshalFor(name, j) ==
  IF name = "KeywordSearch" THEN UnmarshalSearchResponse(j) ELSE UnmarshalProduct(j)
RequiredErr(name) ==
  [kind |-> "errorString",
   s |-> IF name = "KeywordSearch" THEN "keyword is required" ELSE "productCode is required"]

\* How many KeywordSearch and GetProductDetails calls are made.
MaxProductCalls == 2

\* op while such a call runs and after it: phase "request" while doRequest
\* runs, "returned" after; hit: served from the call's own cache entry;
\* stored: whether it Set that entry; attempts, took: the transport attempts
\* and limiter tokens of its doRequest; prev: the call before it.
NoValue == [none |-> TRUE]
CallsMade == IF op.name \in ProductCalls THEN op.n ELSE 0
PrevCall ==
  IF op.name \in ProductCalls
    THEN [name |-> op.name, arg |-> op.arg, err |-> op.err, out |-> op.out,
          hit |-> op.hit, set |-> op.set, attempts |-> op.attempts,
          doneAt |-> op.doneAt]
    ELSE NoOp

\* if cacheData, err := json.Marshal(resp); err == nil { c.cache.Set(cacheKey, cacheData, 5*time.Minute) }
ProductStore(name, key, v) ==
  IF hasCache /\ MarshalFor(name, v).ok
    THEN [set |-> TRUE, cache |-> CacheSet(cache, key, MarshalFor(name, v).j, RequestTTL)]
    ELSE [set |-> FALSE, cache |-> cache]

\* KeywordSearch or GetProductDetails is called: the argument is trimmed and
\* must not be empty; the call's cache entry is returned if there is one that
\* decodes; otherwise doRequest is to be called.
ProductCall(p, name, a) ==
  /\ pc[p] = "idle"
  /\ op.name \in ProductCalls => op.phase = "returned"
  /\ CallsMade < MaxProductCalls
  /\ calls < MaxRequests
  /\ LET arg == TrimSpace(a)
         key == KeyFor(name, arg)
         got == CacheGet(cache, key)
         base == [name |-> name, arg |-> arg, key |-> key, at |-> now, doneAt |-> now,
                  n |-> CallsMade + 1, prev |-> PrevCall, phase |-> "returned",
                  err |-> NoErr, out |-> NoValue, hit |-> FALSE, set |-> FALSE,
                  attempts |-> 0, took |-> 0]
     IN IF arg = <<>>
          THEN /\ op' = [base EXCEPT !.err = RequiredErr(name)]
               /\ UNCHANGED cache
          ELSE IF ~hasCache
            THEN /\ op' = [base EXCEPT !.phase = "request"]
                 /\ UNCHANGED cache
            ELSE /\ cache' = got.cache
                 /\ IF got.found /\ UnmarshalFor(name, got.value).ok
                      THEN op' = [base EXCEPT !.hit = TRUE,
                                              !.out = UnmarshalFor(name, got.value).v]
                      ELSE op' = [base EXCEPT !.phase = "request"]
  /\ UNCHANGED <<now, ticks, limiterVars, callVars, stored, closed, cacheMu, cacheOp, atomic>>

\* body, err := c.doRequest(ctx, method, path, params, body)
ProductDoRequest(p) ==
  /\ op.name \in ProductCalls
  /\ op.phase = "request"
  /\ DoRequest(p, RequestFor(op.name, op.arg))

\* doRequest has returned: its error is returned, or the body is parsed and
\* the result stored and returned.
ProductReturn(p) ==
  /\ op.name \in ProductCalls
  /\ op.phase = "request"
  /\ pc[p] = "done"
  /\ LET done == [op EXCEPT !.phase = "returned", !.doneAt = now,
                            !.attempts = rstat[p].attempts, !.took = rstat[p].tokens]
         res == ResultFor(op.name, result[p].body)
         st == ProductStore(op.name, op.key, res.v)
     IN IF result[p].err # NoErr
          THEN /\ op' = [done EXCEPT !.err = result[p].err]
               /\ UNCHANGED cache
          ELSE IF res.err # NoErr
            THEN /\ op' = [done EXCEPT !.err = res.err]
                 /\ UNCHANGED cache
            ELSE /\ op' = [done EXCEPT !.out = res.v, !.set = st.set]
                 /\ cache' = st.cache
  /\ UNCHANGED <<now, ticks, limiterVars, callVars, stored, closed, cacheMu, cacheOp, atomic>>

\* The call has returned to its caller.
ProductFinish(p) ==
  /\ op.name \in ProductCalls
  /\ op.phase = "returned"
  /\ Finish(p)

InitProducts == Init

NextProducts ==
  \/ TickToTimer
  \/ TickTTL
  \/ \E p \in Requesters : \E name \in ProductCalls : \E a \in ArgsOf(name) :
       ProductCall(p, name, a)
  \/ \E p \in Requesters : ProductDoRequest(p)
  \/ \E p \in Requesters : BackoffTimer(p)
  \/ \E p \in Requesters : BackoffCtxDone(p)
  \/ \E p \in Requesters : WaitLock(p)
  \/ \E p \in Requesters : WaitRefill(p) /\ UNCHANGED granted
  \/ \E p \in Requesters : WaitTimer(p)
  \/ \E p \in Requesters : WaitCtxDone(p)
  \/ \E p \in Requesters : AfterWait(p)
  \/ \E p \in Requesters :
       \E o \in Outcomes(p) \cup {Outcome(b, 200, NoErr) : b \in ErrorBodies} : Transport(p, o)
  \/ \E p \in Requesters : ProductReturn(p)
  \/ \E p \in Requesters : ProductFinish(p)
  \/ \E p \in Requesters : Cancel(p)

SpecProducts == InitProducts /\ [][NextProducts]_vars

\* --------------------------------------------- callers of buildCacheKey

\* Strings are sequences of characters here.  url.QueryEscape of a string:
\* the characters it escapes, of those used.
EscapeChar(ch) ==
  CASE ch = "&" -> <<"%", "2", "6">>
    [] ch = "=" -> <<"%", "3", "D">>
    [] ch = "?" -> <<"%", "3", "F">>
    [] ch = ":" -> <<"%", "3", "A">>
    [] OTHER -> <<ch>>

RECURSIVE QueryEscape(_)
QueryEscape(str) ==
  IF str = <<>> THEN <<>> ELSE EscapeChar(Head(str)) \o QueryEscape(Tail(str))

\* url.Values: nil, or a map from keys to values, here built by
\* params.Set(k, v) calls in the order given.
NoValues == [k \in {} |-> <<>>]
NilValues == [nil |-> TRUE, m |-> NoValues]
ParamKeys == <<"a", "b">>
RECURSIVE ValuesOf(_)
ValuesOf(sets) ==
  IF sets = <<>> THEN [nil |-> FALSE, m |-> NoValues]
  ELSE LET before == ValuesOf(SubSeq(sets, 1, Len(sets) - 1)).m
           last == sets[Len(sets)]
       IN [nil |-> FALSE,
           m |-> [k \in DOMAIN before \cup {last[1]} |->
                    IF k = last[1] THEN last[2] ELSE before[k]]]

\* Values.Encode(): the keys sorted, each as key=value, escaped, joined by &.
RECURSIVE EncodeKeys(_, _)
EncodeKeys(v, ks) ==
  IF ks = <<>> THEN <<>>
  ELSE QueryEscape(<<Head(ks)>>) \o <<"=">> \o QueryEscape(v[Head(ks)])
         \o (IF Tail(ks) # <<>> THEN <<"&">> ELSE <<>>)
         \o EncodeKeys(v, Tail(ks))
Encode(v) == EncodeKeys(v, SelectSeq(ParamKeys, LAMBDA k : k \in DOMAIN v))

\* c.buildCacheKey(method, path, params) of a client whose currency is
\* currency.
buildCacheKeyOf(currency, method, path, v) ==
  KeyString(method, currency, path, IF v.nil THEN NilParams ELSE Encode(v.m))

\* The clients' currencies (WithCurrency takes any string), and the methods,
\* paths and parameters buildCacheKey is called with.
KeyCurrencies == {<<"U">>, <<"U", ":", "E">>}
KeyMethods == {<<"G", "E", "T">>, <<"P", "O", "S", "T">>}
KeyPaths == {<<"/", "p">>, <<"E", ":", "/", "p">>, <<"/", "p", "?", "a", "=", "1">>}
ParamInsertions ==
  {<<>>, << <<"a", <<"1">> >> >>, << <<"a", <<"&">> >> >>,
   << <<"a", <<"1">> >>, <<"b", <<"2">> >> >>,
   << <<"b", <<"2">> >>, <<"a", <<"1">> >> >>}
KeyRequests ==
  [currency : KeyCurrencies, method : KeyMethods, path : KeyPaths,
   nilParams : {FALSE}, sets : ParamInsertions]
  \cup [currency : KeyCurrencies, method : KeyMethods, path : KeyPaths,
        nilParams : {TRUE}, sets : {<<>>}]

\* The url.Values a call passes.
ParamsOf(r) == IF r.nilParams THEN NilValues ELSE ValuesOf(r.sets)

\* A client with currency r.currency builds the key of a request; prev is
\* the call before.
CallBuildCacheKey(r) ==
  /\ op' = [name |-> "buildCacheKey", in |-> r,
            out |-> buildCacheKeyOf(r.currency, r.method, r.path, ParamsOf(r)),
            prev |-> IF op.name = "buildCacheKey"
                       THEN [in |-> op.in, out |-> op.out] ELSE NoOp]
  /\ UNCHANGED <<now, ticks, limiterVars, callVars, cache, stored, closed, cacheMu, cacheOp, atomic>>

InitKeys == InitRL /\ refillRate = 1000

NextKeys == \E r \in KeyRequests : CallBuildCacheKey(r)

SpecKeys == InitKeys /\ [][NextKeys]_vars

\* ----------------------------------- callers of the cache (cache_test.go)

\* The keys, and the TTLs Set is given: zero, a minute (as the tests give) and
\* doRequest's.
CacheKeys == {"k1", "k2"}
ShortTTL == 60000
TTLs == {0, ShortTTL, RequestTTL}

\* The clock's step while the cache is used, in ms, and how often it steps.
CacheTickMs == 150000
MaxCacheTicks == 5

\* cache.Set(k, v, ttl)
SetOp(k, v, ttl) ==
  /\ cache' = CacheSet(cache, k, v, ttl)
  /\ stored' = [x \in DOMAIN stored \cup {k} |->
                  IF x = k THEN [value |-> v, ttl |-> ttl, at |-> now] ELSE stored[x]]
  /\ op' = [name |-> "Set", key |-> k, value |-> v, ttl |-> ttl, at |-> now,
            present |-> k \in DOMAIN cache,
            sizeBefore |-> CacheSize(cache), sizeAfter |-> CacheSize(cache')]
  /\ UNCHANGED <<now, ticks, limiterVars, callVars, closed, cacheMu, cacheOp, atomic>>

\* cache.Get(k)
GetOp(k) ==
  LET got == CacheGet(cache, k)
  IN /\ cache' = got.cache
     /\ op' = [name |-> "Get", key |-> k, at |-> now,
               found |-> got.found, value |-> got.value,
               present |-> k \in DOMAIN cache,
               sizeBefore |-> CacheSize(cache), sizeAfter |-> CacheSize(cache')]
     /\ UNCHANGED <<now, ticks, limiterVars, callVars, stored, closed, cacheMu, cacheOp, atomic>>

\* cache.Delete(k)
DeleteOp(k) ==
  /\ cache' = CacheDelete(cache, k)
  /\ stored' = [x \in DOMAIN stored \ {k} |-> stored[x]]
  /\ op' = [name |-> "Delete", key |-> k, at |-> now, present |-> k \in DOMAIN cache,
            sizeBefore |-> CacheSize(cache), sizeAfter |-> CacheSize(cache')]
  /\ UNCHANGED <<now, ticks, limiterVars, callVars, closed, cacheMu, cacheOp, atomic>>

\* cache.Clear()
ClearOp ==
  /\ cache' = CacheClear(cache)
  /\ stored' = NoneStored
  /\ op' = [name |-> "Clear", at |-> now, sizeAfter |-> CacheSize(cache')]
  /\ UNCHANGED <<now, ticks, limiterVars, callVars, closed, cacheMu, cacheOp, atomic>>

\* cache.cleanup(), called directly.
CleanupOp ==
  /\ cache' = CacheCleanup(cache)
  /\ op' = [name |-> "cleanup", at |-> now, keysAfter |-> DOMAIN cache',
            sizeBefore |-> CacheSize(cache), sizeAfter |-> CacheSize(cache')]
  /\ UNCHANGED <<now, ticks, limiterVars, callVars, stored, closed, cacheMu, cacheOp, atomic>>

\* cache.Size()
SizeOp ==
  /\ op' = [name |-> "Size", at |-> now, keys |-> DOMAIN cache, out |-> CacheSize(cache)]
  /\ UNCHANGED <<now, ticks, limiterVars, callVars, cache, stored, closed, cacheMu, cacheOp, atomic>>

\* Mutant: the maintenance task outlives Close.
SweepAfterClose ==
  /\ cache' = CacheCleanup(cache)
  /\ op' = [name |-> "sweep", at |-> now, sizeBefore |-> CacheSize(cache),
            sizeAfter |-> CacheSize(cache')]
  /\ UNCHANGED <<now, ticks, limiterVars, callVars, stored, closed, cacheMu, cacheOp, atomic>>

\* The maintenance task's interval elapses and it sweeps; it runs until
\* Close.
Sweep ==
  /\ ~closed
  /\ cache' = CacheCleanup(cache)
  /\ op' = [name |-> "sweep", at |-> now, sizeBefore |-> CacheSize(cache),
            sizeAfter |-> CacheSize(cache')]
  /\ UNCHANGED <<now, ticks, limiterVars, callVars, stored, closed, cacheMu, cacheOp, atomic>>

\* cache.Close(): stops the maintenance task; a second call does nothing.
CloseOp ==
  /\ closed' = TRUE
  /\ op' = [name |-> "Close", at |-> now, wasClosed |-> closed,
            sizeAfter |-> CacheSize(cache)]
  /\ UNCHANGED <<now, ticks, limiterVars, callVars, cache, stored, cacheMu, cacheOp, atomic>>

\* Time passes.
CacheTick ==
  /\ ticks < MaxCacheTicks
  /\ ticks' = ticks + 1
  /\ now' = now + CacheTickMs
  /\ UNCHANGED <<limiterVars, callVars, cache, stored, op, closed, cacheMu, cacheOp, atomic>>

\* NewMemoryCache(DefaultTTL)
InitCache == InitRL /\ refillRate = 1000

NextCache ==
  \/ \E k \in CacheKeys : \E v \in Bodies : \E ttl \in TTLs : SetOp(k, v, ttl)
  \/ \E k \in CacheKeys : GetOp(k)
  \/ \E k \in CacheKeys : DeleteOp(k)
  \/ ClearOp
  \/ CleanupOp
  \/ SizeOp
  \/ Sweep
  \/ CloseOp
  \/ CacheTick

SpecCache == InitCache /\ [][NextCache]_vars

\* ------------------------- concurrent users of the cache and its sweep

\* A value not yet written: an entry whose key is in the map while its value
\* is not.
Absent == "absent"

\* How often the clock steps while the cache is used concurrently.
MaxSweepTicks == 2

\* A caller starts Set, Get, Delete or Size: it takes the cache's lock.
CacheBegin(w, o) ==
  /\ cacheOp[w].at = "idle"
  /\ cacheMu = NoProc
  /\ cacheMu' = w
  /\ cacheOp' = [cacheOp EXCEPT ![w] =
                   [IdleOp EXCEPT !.at = "locked", !.name = o.name, !.key = o.key,
                                  !.value = o.value, !.ttl = o.ttl]]
  /\ UNCHANGED <<now, ticks, cache, atomic, limiterVars, callVars, op, stored, closed>>

\* Set, holding the lock, puts the key in the map with its expiry.
SetKey(w) ==
  /\ cacheMu = w
  /\ cacheOp[w].at = "locked" /\ cacheOp[w].name = "Set"
  /\ cache' = CacheSet(cache, cacheOp[w].key, Absent, cacheOp[w].ttl)
  /\ cacheOp' = [cacheOp EXCEPT ![w].at = "set_key",
                                ![w].overwrote = cacheOp[w].key \in DOMAIN cache
                                                   /\ ~Live(cache, cacheOp[w].key)]
  /\ UNCHANGED <<now, ticks, cacheMu, atomic, limiterVars, callVars, op, stored, closed>>

\* Set writes the value and unlocks.
SetValue(w) ==
  /\ cacheOp[w].at = "set_key"
  /\ cache' = CacheSet(cache, cacheOp[w].key, cacheOp[w].value, cacheOp[w].ttl)
  /\ atomic' = CacheSet(atomic, cacheOp[w].key, cacheOp[w].value, cacheOp[w].ttl)
  /\ cacheOp' = [cacheOp EXCEPT ![w].at = "idle"]
  /\ cacheMu' = NoProc
  /\ UNCHANGED <<now, ticks, limiterVars, callVars, op, stored, closed>>

\* Get, holding the lock, looks the key up, removes it if expired, and
\* unlocks.
GetRead(w) ==
  /\ cacheMu = w
  /\ cacheOp[w].at = "locked" /\ cacheOp[w].name = "Get"
  /\ LET got == CacheGet(cache, cacheOp[w].key)
         ref == CacheGet(atomic, cacheOp[w].key)
     IN /\ cache' = got.cache
        /\ atomic' = ref.cache
        /\ cacheOp' = [cacheOp EXCEPT ![w].at = "idle",
                                      ![w].found = got.found,
                                      ![w].got = IF got.found THEN got.value ELSE "",
                                      ![w].atFound = ref.found,
                                      ![w].atGot = IF ref.found THEN ref.value ELSE ""]
  /\ cacheMu' = NoProc
  /\ UNCHANGED <<now, ticks, limiterVars, callVars, op, stored, closed>>

\* Delete, holding the lock, removes the key and unlocks.
DeleteEntry(w) ==
  /\ cacheMu = w
  /\ cacheOp[w].at = "locked" /\ cacheOp[w].name = "Delete"
  /\ cache' = CacheDelete(cache, cacheOp[w].key)
  /\ atomic' = CacheDelete(atomic, cacheOp[w].key)
  /\ cacheOp' = [cacheOp EXCEPT ![w].at = "idle"]
  /\ cacheMu' = NoProc
  /\ UNCHANGED <<now, ticks, limiterVars, callVars, op, stored, closed>>

\* Size, holding the lock, counts the entries and unlocks.
SizeRead(w) ==
  /\ cacheMu = w
  /\ cacheOp[w].at = "locked" /\ cacheOp[w].name = "Size"
  /\ cacheOp' = [cacheOp EXCEPT ![w].at = "idle",
                                ![w].size = CacheSize(cache),
                                ![w].atSize = CacheSize(atomic)]
  /\ cacheMu' = NoProc
  /\ UNCHANGED <<now, ticks, cache, atomic, limiterVars, callVars, op, stored, closed>>

\* The maintenance task's interval elapses: it takes the cache's lock.
SweepLock ==
  /\ cacheOp[Sweeper].at = "idle"
  /\ cacheMu = NoProc
  /\ cacheMu' = Sweeper
  /\ cacheOp' = [cacheOp EXCEPT ![Sweeper] =
                   [IdleOp EXCEPT !.at = "locked", !.name = "sweep"]]
  /\ UNCHANGED <<now, ticks, cache, atomic, limiterVars, callVars, op, stored, closed>>

\* Mutant: the sweep unlocks once it has found the expired keys.
SweepScanUnlocks ==
  /\ cacheMu = Sweeper
  /\ cacheOp[Sweeper].at = "locked"
  /\ cacheOp' = [cacheOp EXCEPT
                   ![Sweeper].at = "scanned",
                   ![Sweeper].expired = {k \in DOMAIN cache : ~Live(cache, k)},
                   ![Sweeper].sawTorn = \E k \in DOMAIN cache : cache[k].value = Absent]
  /\ cacheMu' = NoProc
  /\ UNCHANGED <<now, ticks, cache, atomic, limiterVars, callVars, op, stored, closed>>

\* The sweep, holding the lock, finds the entries whose expiry has passed.
SweepScan ==
  /\ cacheMu = Sweeper
  /\ cacheOp[Sweeper].at = "locked"
  /\ cacheOp' = [cacheOp EXCEPT
                   ![Sweeper].at = "scanned",
                   ![Sweeper].expired = {k \in DOMAIN cache : ~Live(cache, k)},
                   ![Sweeper].sawTorn = \E k \in DOMAIN cache : cache[k].value = Absent]
  /\ UNCHANGED <<now, ticks, cacheMu, cache, atomic, limiterVars, callVars, op, stored, closed>>

\* The sweep removes the entries it found and unlocks.
SweepRemove ==
  /\ cacheOp[Sweeper].at = "scanned"
  /\ LET gone == cacheOp[Sweeper].expired \cap DOMAIN cache
     IN /\ cache' = [x \in DOMAIN cache \ gone |-> cache[x]]
        /\ cacheOp' = [cacheOp EXCEPT
                         ![Sweeper].at = "idle",
                         ![Sweeper].removed = gone,
                         ![Sweeper].removedLive = \E k \in gone : Live(cache, k)]
  /\ atomic' = CacheCleanup(atomic)
  /\ cacheMu' = IF cacheMu = Sweeper THEN NoProc ELSE cacheMu
  /\ UNCHANGED <<now, ticks, limiterVars, callVars, op, stored, closed>>

\* Time passes between operations: each reads the clock once.
SweepTick ==
  /\ ticks < MaxSweepTicks
  /\ cacheMu = NoProc
  /\ ticks' = ticks + 1
  /\ now' = now + CacheTickMs
  /\ UNCHANGED <<cacheMu, cacheOp, cache, atomic, limiterVars, callVars, op, stored, closed>>

NextSweep ==
  \/ \E w \in CacheWorkers :
       \E o \in {[name |-> "Set", key |-> k, value |-> v, ttl |-> ShortTTL] :
                   k \in CacheKeys, v \in Bodies}
                \cup {[name |-> n, key |-> k, value |-> "", ttl |-> 0] :
                        n \in {"Get", "Delete"}, k \in CacheKeys}
                \cup {[name |-> "Size", key |-> "", value |-> "", ttl |-> 0]} :
         CacheBegin(w, o)
  \/ \E w \in CacheWorkers : SetKey(w)
  \/ \E w \in CacheWorkers : SetValue(w)
  \/ \E w \in CacheWorkers : GetRead(w)
  \/ \E w \in CacheWorkers : DeleteEntry(w)
  \/ \E w \in CacheWorkers : SizeRead(w)
  \/ SweepLock
  \/ SweepScan
  \/ SweepRemove
  \/ SweepTick

\* NewMemoryCache(DefaultTTL)
SpecSweep == InitCache /\ [][NextSweep]_vars

\* ------------------------------------------------------------- claims

\* The bucket's capacity in whole tokens.
Capacity == maxTokens \div TokenUnit

\* C2: a fresh limiter of whole capacity C and rate R grants C calls with no
\* time elapsing and none of them sleeps; the call after them sleeps for the
\* deficit of one token, 1/R seconds, and the (C+1)th token is granted no
\* sooner than 1/R seconds after construction.
C2_BurstThenWait ==
  (maxTokens % TokenUnit = 0) =>
    /\ (now = 0) =>
         /\ Len(granted) <= Capacity
         /\ \A p \in Procs :
              /\ (wstat[p].sleeps > 0) => (Len(granted) = Capacity)
              /\ (pc[p] = "wait_sleep") => (wakeAt[p] = TokenUnit \div refillRate)
    /\ (Len(granted) > Capacity) => (granted[Capacity + 1] * refillRate >= TokenUnit)

\* C2's case: the first C tokens went at time 0, and a caller that slept once
\* got the (C+1)th exactly 1/R seconds later.
C2_Witness ==
  /\ maxTokens % TokenUnit = 0
  /\ Len(granted) = Capacity + 1
  /\ granted[Capacity] = 0
  /\ granted[Capacity + 1] * refillRate = TokenUnit
  /\ \E p \in Procs : pc[p] = "wait_ret" /\ waitErr[p] = "nil" /\ wstat[p].sleeps = 1

\* C3: in every window of time the tokens granted number at most the capacity
\* plus rate times the window's length: for any two grants i <= j, the j-i+1
\* grants from i to j fit in maxTokens + refillRate * (granted[j] - granted[i]).
C3_RateBound ==
  \A i \in 1..Len(granted) : \A j \in i..Len(granted) :
    (j - i + 1) * TokenUnit <= maxTokens + refillRate * (granted[j] - granted[i])

\* C3's case: two callers woke from their sleeps at the same time, one took
\* the refilled token and the other went back to sleep.
C3_Witness ==
  /\ Len(granted) > Capacity
  /\ \E p \in Procs : \E q \in Procs :
       /\ pc[p] = "wait_ret" /\ waitErr[p] = "nil" /\ wstat[p].sleeps = 1
       /\ pc[q] = "wait_sleep" /\ wstat[q].sleeps = 2
       /\ granted[Len(granted)] = now

\* C4: Wait blocks no longer than the deficit takes to refill: a caller is
\* sent (back) to sleep only while the elapsed time has not yet refilled the
\* bucket to one token.
C4_GrantedOnceRefilled ==
  \A p \in Procs : (pc[p] = "wait_sleep") => (wstat[p].uncapped < TokenUnit)

\* C5: a cancelled sleeper can return at once, whatever is left of its timer,
\* and the return with the context's error leaves the bucket as it was.
C5_CancelSleep ==
  /\ [](\A p \in Procs : (pc[p] = "wait_sleep" /\ ctxDone[p]) => ENABLED WaitCtxDone(p))
  /\ [][\A p \in Procs :
          (pc[p] = "wait_sleep" /\ pc'[p] = "wait_ret" /\ waitErr'[p] = "ctx")
            => (tokens' = tokens /\ lastRefill' = lastRefill /\ wstat'[p].took = 0)]_vars

\* C5's case: a Wait has returned the context's error before its timer was due.
C5_Witness ==
  \E p \in Procs :
    /\ pc[p] = "wait_ret" /\ waitErr[p] = "ctx"
    /\ now < wakeAt[p]
    /\ tokens < TokenUnit

\* C6: tokens stays within [0, maxTokens], and a step lowers it only by
\* granting: the refilled count less exactly one token.
C6_TokensInRange ==
  /\ [](0 <= tokens /\ tokens <= maxTokens)
  /\ [][(tokens' < tokens) =>
          \E p \in Procs :
            /\ pc[p] = "wait_crit" /\ pc'[p] = "wait_ret" /\ waitErr'[p] = "nil"
            /\ tokens' = Refilled - TokenUnit]_vars

\* C6's case: time has passed, tokens were granted and refilled, and the
\* bucket is below its capacity.
C6_Witness ==
  /\ Len(granted) > Capacity
  /\ 0 < tokens /\ tokens < maxTokens
  /\ lastRefill > 0

\* doRequest has returned to caller p.
Done(p) == pc[p] = "done"

\* The call's latest attempt failed with a retryable status.
LastRetryable(p) ==
  rstat[p].last.err # NoErr /\ rstat[p].last.status \in RetryableStatuses

\* C1: with MaxRetries = N >= 0, a call that missed the cache, was not
\* cancelled and saw every attempt fail with a retryable outcome (a retryable
\* status, or a timeout with status 0) has made exactly N+1 attempts and N
\* backoff sleeps (one attempt and no sleep for N = 0) and returned
\* "max retries exceeded" wrapping the last attempt's error.
C1_RetryCeiling ==
  \A p \in Procs :
    (/\ retryConfig.MaxRetries >= 0
     /\ Done(p) /\ ~rstat[p].hit /\ ~ctxDone[p]
     /\ rstat[p].retryable + rstat[p].timeouts = rstat[p].attempts) =>
      /\ rstat[p].attempts = retryConfig.MaxRetries + 1
      /\ rstat[p].backoffs = retryConfig.MaxRetries
      /\ result[p] = [body |-> NilBody,
                      err |-> Wrap("max retries exceeded", rstat[p].last.err)]

\* A step in which caller p calls doRequest.
Calls(p) == pc[p] = "idle" /\ pc'[p] # "idle"

\* The call's cache key, whether or not the call is cache-eligible.
KeyOf(r) == buildCacheKey(r.method, r.path, r.params)

\* C7: a GET call on a client with a cache that finds a live entry under its
\* key returns at once the cached bytes and a nil error; it has made no
\* attempt and no backoff sleep, and the limiter and the cache are as before.
C7_CacheHit ==
  [][\A p \in Procs :
       (Calls(p) /\ hasCache /\ req'[p].method = "GET" /\ Live(cache, KeyOf(req'[p])))
         => /\ pc'[p] = "done"
            /\ result'[p] = [body |-> cache[KeyOf(req'[p])].value, err |-> NoErr]
            /\ rstat'[p].attempts = 0 /\ rstat'[p].backoffs = 0 /\ rstat'[p].tokens = 0
            /\ UNCHANGED <<tokens, lastRefill, mu, wakeAt, cache>>]_vars

\* C7's case: a second call was served from the cache.
C7_Witness ==
  \E p \in Procs :
    /\ Done(p) /\ rstat[p].hit
    /\ result[p].body \in Bodies
    /\ calls = 2

\* A step in which caller p's GET on a client with a cache succeeds through
\* the transport.
Fetched(p) ==
  /\ pc[p] = "transport" /\ pc'[p] = "done" /\ result'[p].err = NoErr
  /\ hasCache /\ req[p].method = "GET"

\* C8: a GET that succeeds through the transport leaves the returned bytes
\* in the cache under its key, to expire five minutes later; a live entry
\* changes only by such a store under its key; an identical call before the
\* entry expires returns the entry's bytes; and a step that leaves no
\* cache-eligible call in flight leaves the cache as it was.
C8_StoreThenServe ==
  [][/\ \A p \in Procs :
          /\ Fetched(p) =>
               /\ KeyOf(req[p]) \in DOMAIN cache'
               /\ cache'[KeyOf(req[p])] =
                    [value |-> result'[p].body, expiresAt |-> now + RequestTTL]
          /\ (Calls(p) /\ hasCache /\ req'[p].method = "GET" /\ Live(cache, KeyOf(req'[p])))
               => result'[p] = [body |-> cache[KeyOf(req'[p])].value, err |-> NoErr]
     /\ \A k \in DOMAIN cache :
          Live(cache, k) =>
            \/ k \in DOMAIN cache' /\ cache'[k] = cache[k]
            \/ \E p \in Procs : Fetched(p) /\ KeyOf(req[p]) = k
     /\ (\A p \in Procs : pc'[p] # "idle" => (req'[p].method # "GET" \/ ~hasCache))
          => cache' = cache]_vars

\* C8's case: after a store, an identical call before the entry's expiry
\* returned the stored bytes.
C8_Witness ==
  \E p \in Procs :
    /\ Done(p) /\ rstat[p].hit
    /\ cacheKey[p] \in DOMAIN cache
    /\ cache[cacheKey[p]].value = result[p].body
    /\ now < cache[cacheKey[p]].expiresAt
    /\ now > 0

\* C9: once an attempt has returned a non-retryable status with no transport
\* error, the call has returned that failure: no backoff sleep and no attempt
\* follows it, whatever is left of MaxRetries.
C9_FatalStatusReturns ==
  \A p \in Procs :
    LET o == rstat[p].last
    IN (o.err.kind = "status" /\ o.status \notin RetryableStatuses) =>
         /\ Done(p)
         /\ result[p] = [body |-> NilBody, err |-> StatusErr(o.status)]
         /\ rstat[p].retryable = rstat[p].attempts - 1
         /\ rstat[p].backoffs = rstat[p].attempts - 1

\* C9's case: a 404 on the second attempt, with a retry left.
C9_Witness ==
  \E p \in Procs :
    /\ Done(p)
    /\ rstat[p].last.status = 404
    /\ rstat[p].attempts = 2
    /\ retryConfig.MaxRetries > 1

\* C10: an un-cancelled call does not stop at a retryable status while retries
\* are left, and one whose attempt succeeds returns that attempt's body and a
\* nil error: its k earlier attempts all failed with retryable statuses,
\* k <= MaxRetries, and it slept k times.
C10_RetryThenSucceed ==
  \A p \in Procs :
    /\ (Done(p) /\ ~ctxDone[p] /\ LastRetryable(p)) =>
         rstat[p].attempts = retryConfig.MaxRetries + 1
    /\ (Done(p) /\ ~ctxDone[p] /\ ~rstat[p].hit /\ rstat[p].attempts > 0
          /\ rstat[p].last.err = NoErr) =>
         /\ result[p] = [body |-> rstat[p].last.body, err |-> NoErr]
         /\ rstat[p].attempts = rstat[p].retryable + 1
         /\ rstat[p].backoffs = rstat[p].retryable
         /\ rstat[p].retryable <= retryConfig.MaxRetries

\* C10's case: two retryable failures, then a success on the third attempt.
C10_Witness ==
  \E p \in Procs :
    /\ Done(p) /\ ~ctxDone[p]
    /\ rstat[p].retryable = 2 /\ rstat[p].attempts = 3 /\ rstat[p].backoffs = 2
    /\ result[p].err = NoErr /\ result[p].body \in Bodies

\* C11: an un-cancelled call whose latest attempt failed with a timeout and
\* status 0 has not returned before its retries were used up: it has made
\* MaxRetries + 1 attempts.
C11_TimeoutRetried ==
  \A p \in Procs :
    (/\ retryConfig.MaxRetries >= 0
     /\ Done(p) /\ ~ctxDone[p]
     /\ IsTimeoutOutcome(rstat[p].last)) =>
      rstat[p].attempts = retryConfig.MaxRetries + 1

\* C12: with no error, shouldRetry is true exactly for the statuses 429, 500,
\* 502, 503 and 504.
C12_StatusClassification ==
  (op.name = "shouldRetry" /\ op.err = NoErr) =>
    (op.out <=> op.statusCode \in {429, 500, 502, 503, 504})

\* C12's case: shouldRetry(nil, 429) was true.
C12_Witness ==
  op.name = "shouldRetry" /\ op.err = NoErr /\ op.statusCode = 429 /\ op.out

\* C13: with a non-zero status the error has no part in the decision:
\* shouldRetry(e, s) is what shouldRetry(nil, s) is.
C13_StatusPrecedence ==
  (op.name = "shouldRetry" /\ op.statusCode # 0) =>
    (op.out <=> op.statusCode \in {429, 500, 502, 503, 504})

\* The un-jittered, un-capped delay InitialBackoff * Multiplier^n, in ms.
RECURSIVE Power(_, _)
Power(b, n) == IF n = 0 THEN 1 ELSE b * Power(b, n - 1)
Delay(c, n) == (c.InitialBackoff * Power(c.Multiplier, n)) \div Power(10, n)

\* The un-jittered delay, capped.
Base(c, n) == Min(Delay(c, n), c.MaxBackoff)

\* C14: with Jitter = 0, calculateBackoff(n) is InitialBackoff * Multiplier^n
\* capped at MaxBackoff (100, 200, 400 ms for 100 ms and 2.0), and with
\* Multiplier >= 1 it is no less than calculateBackoff(n - 1).
C14_BackoffGrowth ==
  (op.name = "calculateBackoff" /\ op.c.Jitter = 0) =>
    /\ op.out = Base(op.c, op.attempt)
    /\ (op.c.InitialBackoff = 100 /\ op.c.Multiplier = 20 /\ op.c.MaxBackoff >= 400
          /\ op.attempt <= 2) => op.out = <<100, 200, 400>>[op.attempt + 1]
    /\ (op.c.Multiplier >= 10 /\ op.attempt > 0) => op.out >= op.prev

\* C14's case: the third delay of the test's configuration, un-capped.
C14_Witness ==
  /\ op.name = "calculateBackoff" /\ op.c.Jitter = 0
  /\ op.c.InitialBackoff = 100 /\ op.c.Multiplier = 20
  /\ op.attempt = 2 /\ op.prev = 200 /\ op.out = 400

\* C15: with jitter fraction f, calculateBackoff(n) lies within
\* [base * (1 - f), base * (1 + f)], base being the capped un-jittered delay
\* (the ends rounded outwards to whole ms).
C15_JitterBound ==
  (op.name = "calculateBackoff") =>
    LET base == Base(op.c, op.attempt)
    IN /\ op.out >= (base * (100 - op.c.Jitter)) \div 100
       /\ op.out <= (base * (100 + op.c.Jitter) + 99) \div 100

\* C15's case: a jittered delay below its base, and one the cap cut.
C15_Witness ==
  /\ op.name = "calculateBackoff" /\ op.c.Jitter = 10 /\ op.attempt > 0
  /\ op.out < Base(op.c, op.attempt)
  /\ Delay(op.c, op.attempt) > op.c.MaxBackoff

\* C16: calculateBackoff never returns more than MaxBackoff.
C16_BackoffCapped ==
  (op.name = "calculateBackoff") => op.out <= op.c.MaxBackoff

\* C16's case: the jittered delay, above MaxBackoff, was cut to it.
C16_Witness ==
  /\ op.name = "calculateBackoff" /\ op.c.Jitter > 0 /\ op.u > 50
  /\ Delay(op.c, op.attempt) > op.c.MaxBackoff
  /\ op.out = op.c.MaxBackoff

\* When the entry last stored under key k expires; a TTL of zero stands for
\* the default TTL.
ExpiryOf(k) ==
  stored[k].at + (IF stored[k].ttl = 0 THEN DefaultTTL ELSE stored[k].ttl)

\* C17: a Get of a key last Set with a TTL t > 0, with no Delete or Clear
\* since, returns the stored value if made before t has elapsed and is a miss
\* if made after, whether or not the sweep has run.
C17_TTL ==
  (op.name = "Get" /\ op.key \in DOMAIN stored /\ stored[op.key].ttl > 0) =>
    /\ (op.at < ExpiryOf(op.key)) => (op.found /\ op.value = stored[op.key].value)
    /\ (op.at > ExpiryOf(op.key)) => ~op.found

\* C17's case: a miss after the TTL has elapsed, the entry not yet swept.
C17_Witness ==
  /\ op.name = "Get" /\ op.key \in DOMAIN stored /\ stored[op.key].ttl = ShortTTL
  /\ op.at > ExpiryOf(op.key) /\ op.present /\ ~op.found

\* C18: a Get of a key last Set with TTL 0 returns the stored value before
\* the default TTL has elapsed and is a miss after it.
C18_DefaultTTL ==
  (op.name = "Get" /\ op.key \in DOMAIN stored /\ stored[op.key].ttl = 0) =>
    /\ (op.at < stored[op.key].at + DefaultTTL) =>
         (op.found /\ op.value = stored[op.key].value)
    /\ (op.at > stored[op.key].at + DefaultTTL) => ~op.found

\* C18's case: a hit long after the Set with TTL 0, and before the default
\* TTL has elapsed.
C18_Witness ==
  /\ op.name = "Get" /\ op.key \in DOMAIN stored /\ stored[op.key].ttl = 0
  /\ op.at > stored[op.key].at + RequestTTL
  /\ op.found

\* C19: a Set leaves under its key the entry it was given, with its own
\* expiry; on a key already present it leaves Size as it was; and a Get that
\* finds the key returns the last value Set.
C19_Overwrite ==
  /\ (op.name = "Set") =>
       /\ op.key \in DOMAIN cache
       /\ cache[op.key] =
            [value |-> op.value,
             expiresAt |-> op.at + (IF op.ttl = 0 THEN DefaultTTL ELSE op.ttl)]
       /\ op.present => op.sizeAfter = op.sizeBefore
       /\ op.sizeAfter <= op.sizeBefore + 1
  /\ (op.name = "Get" /\ op.found) =>
       (op.key \in DOMAIN stored /\ op.value = stored[op.key].value)

\* C19's case: a Set gave a key already present another value and another
\* expiry.
C19_Witness ==
  /\ op.name = "Set" /\ op.present /\ op.sizeAfter = 1
  /\ op.value = "r2" /\ op.ttl = ShortTTL /\ op.at > 0

\* C20: a Get of a key whose entry has expired returns what a Get of a key
\* never set returns, found = false and no value, and removes the entry:
\* Size is one less.
C20_ExpiredIsMiss ==
  (op.name = "Get" /\ ~op.found) =>
    /\ op.value = <<>>
    /\ op.key \notin DOMAIN cache
    /\ op.sizeAfter = op.sizeBefore - (IF op.present THEN 1 ELSE 0)

\* C20's case: the Get met an expired entry, another key still being cached.
C20_Witness ==
  /\ op.name = "Get" /\ ~op.found /\ op.present
  /\ op.sizeBefore = 2 /\ op.sizeAfter = 1

\* C24: a call that has returned has returned either a body and a nil error
\* or no body and an error, and when its last attempt failed the error
\* returned is that attempt's, bare or wrapped as "max retries exceeded", or,
\* for a cancelled call, the context's.
C24_ResultXorError ==
  \A p \in Procs :
    Done(p) =>
      /\ \/ result[p].body # NilBody /\ result[p].err = NoErr
         \/ result[p].body = NilBody /\ result[p].err # NoErr
      /\ (rstat[p].last.err # NoErr) =>
           \/ result[p].err = rstat[p].last.err
           \/ result[p].err = Wrap("max retries exceeded", rstat[p].last.err)
           \/ ctxDone[p] /\ result[p].err \in {CtxErr, Wrap("rate limiter", CtxErr)}

\* C24's case: the retries are used up and the last attempt's error, a failed
\* read, is returned wrapped.
C24_Witness ==
  \E p \in Procs :
    /\ Done(p) /\ rstat[p].last.err = ReadErr
    /\ result[p] = [body |-> NilBody, err |-> Wrap("max retries exceeded", ReadErr)]

\* C25: a caller cancelled in its backoff sleep can return at once, and when
\* it leaves the sleep before the timer is due it has returned the context's
\* error, with no attempt made and no token taken by that step; a call that
\* returned the bare context error made no attempt after its last backoff.
C25_CancelBackoff ==
  /\ [](\A p \in Procs : (pc[p] = "backoff" /\ ctxDone[p]) => ENABLED BackoffCtxDone(p))
  /\ [][\A p \in Procs :
          (pc[p] = "backoff" /\ ctxDone[p] /\ now < wakeAt[p] /\ pc'[p] # "backoff")
            => /\ pc'[p] = "done"
               /\ result'[p] = [body |-> NilBody, err |-> CtxErr]
               /\ rstat'[p] = rstat[p]
               /\ tokens' = tokens /\ lastRefill' = lastRefill]_vars
  /\ [](\A p \in Procs :
          (Done(p) /\ result[p].err = CtxErr) =>
            /\ rstat[p].backoffs = rstat[p].attempts
            /\ rstat[p].tokens = rstat[p].attempts)

\* C25's case: the call was cancelled in its second backoff sleep and has
\* returned before the timer was due.
C25_Witness ==
  \E p \in Procs :
    /\ Done(p) /\ result[p].err = CtxErr
    /\ now < wakeAt[p]
    /\ rstat[p].attempts = 2 /\ rstat[p].backoffs = 2

\* C29: when Wait has returned the context's error the call returns
\* "rate limiter" wrapping it, without an attempt; the attempts made before
\* were each followed by a backoff and are no more than MaxRetries.
C29_WaitFailure ==
  /\ [][\A p \in Procs :
          (pc[p] = "wait_ret" /\ waitErr[p] = "ctx" /\ pc'[p] # "wait_ret")
            => /\ pc'[p] = "done"
               /\ result'[p] = [body |-> NilBody, err |-> Wrap("rate limiter", CtxErr)]
               /\ rstat'[p].attempts = rstat[p].attempts]_vars
  /\ [](\A p \in Procs :
          (Done(p) /\ result[p].err = Wrap("rate limiter", CtxErr)) =>
            /\ ctxDone[p]
            /\ rstat[p].attempts = rstat[p].backoffs
            /\ rstat[p].attempts <= retryConfig.MaxRetries)

\* C29's case: Wait failed in the second iteration, after one attempt.
C29_Witness ==
  \E p \in Procs :
    /\ Done(p) /\ result[p].err = Wrap("rate limiter", CtxErr)
    /\ rstat[p].attempts = 1 /\ rstat[p].tokens = 1

\* C30: the mutex is held only by a caller in its refill-and-check step,
\* never by a sleeping one, and while a caller sleeps another caller that
\* finds the mutex free can take it.
C30_LockNotHeldAsleep ==
  /\ (mu # NoProc) => pc[mu] = "wait_crit"
  /\ \A p \in Procs :
       (pc[p] = "wait_sleep") =>
         /\ mu # p
         /\ \A q \in Procs \ {p} :
              (pc[q] = "wait_lock" /\ mu = NoProc) => ENABLED WaitLock(q)

\* C30's case: while one caller is still in its sleep, another holds the
\* mutex and finds a token.
C30_Witness ==
  \E p \in Procs : \E q \in Procs \ {p} :
    /\ pc[p] = "wait_sleep" /\ wstat[p].sleeps >= 1
    /\ mu = q /\ pc[q] = "wait_crit"
    /\ Refilled >= TokenUnit

\* C21: Size returns the number of keys in the store, the Set and not
\* removed ones, expired or not, never fewer than the unexpired ones; after
\* cleanup the store holds exactly the keys whose entry has not expired, and
\* Size is their number.
C21_SizeAndCleanup ==
  /\ (op.name = "Size") =>
       /\ op.out = Cardinality(op.keys)
       /\ op.keys \subseteq DOMAIN stored
       /\ {k \in DOMAIN stored : op.at < ExpiryOf(k)} \subseteq op.keys
  /\ (op.name = "cleanup") =>
       /\ op.keysAfter = {k \in DOMAIN stored : op.at < ExpiryOf(k)}
       /\ op.sizeAfter = Cardinality(op.keysAfter)
       /\ (now = op.at) => CacheSize(cache) = op.sizeAfter

\* C21's case: Size counts two keys, one of them expired.
C21_Witness ==
  /\ op.name = "Size" /\ op.out = 2
  /\ \E k \in op.keys : op.at >= ExpiryOf(k)
  /\ \E k \in op.keys : op.at < ExpiryOf(k)

\* C22: Delete removes its key and nothing else, so Size falls by one if the
\* key was there and nothing changes if it was not; Clear leaves the store
\* empty; a Get of a key deleted or cleared and not Set since is a miss.
C22_DeleteClear ==
  /\ [][(op' # op /\ op'.name = "Delete") =>
          /\ DOMAIN cache' = DOMAIN cache \ {op'.key}
          /\ \A x \in DOMAIN cache' : cache'[x] = cache[x]
          /\ CacheSize(cache') =
               CacheSize(cache) - (IF op'.key \in DOMAIN cache THEN 1 ELSE 0)
          /\ (op'.key \notin DOMAIN cache) => cache' = cache]_vars
  /\ [][(op' # op /\ op'.name = "Clear") =>
          (cache' = EmptyCache /\ CacheSize(cache') = 0)]_vars
  /\ []((op.name = "Get" /\ op.key \notin DOMAIN stored) => ~op.found)
  /\ []((op.name \in {"Delete", "Clear"} /\ op.at = now) =>
          \A k \in CacheKeys : k \notin DOMAIN stored => ~CacheGet(cache, k).found)

\* C22's case: one of two stored keys has been deleted and the other is
\* still served.
C22_Witness ==
  /\ op.name = "Delete" /\ op.present /\ op.sizeBefore = 2 /\ op.sizeAfter = 1
  /\ \E k \in CacheKeys \ {op.key} : CacheGet(cache, k).found

\* C23: once Close has been called the maintenance task never sweeps again;
\* Close can always be called, and called again it changes nothing.
C23_CloseStopsSweep ==
  /\ [][closed => ~(op' # op /\ op'.name = "sweep")]_vars
  /\ [][closed => (closed' /\ (op'.name = "Close" => cache' = cache))]_vars
  /\ [](ENABLED CloseOp)

\* C23's case: Close has been called a second time while an expired entry is
\* still in the store.
C23_Witness ==
  /\ closed /\ op.name = "Close" /\ op.wasClosed
  /\ \E k \in DOMAIN cache : ~Live(cache, k)

\* C26: for an envelope, parseResponse returns ErrProductNotFound for code
\* 404, ErrRateLimited for 429, ErrInternalServer for 500,
\* ErrServiceUnavailable for 503 and an *APIError with the envelope's code
\* and message for every other code but 200; the four sentinels are pairwise
\* distinct, and none is returned for code 200.
C26_EnvelopeErrors ==
  LET Sentinels ==
        {ErrProductNotFound, ErrRateLimited, ErrInternalServer, ErrServiceUnavailable}
  IN /\ Cardinality(Sentinels) = 4
     /\ (op.name = "parseResponse" /\ op.body.json) =>
          /\ (op.body.code = 404) => op.out = ErrProductNotFound
          /\ (op.body.code = 429) => op.out = ErrRateLimited
          /\ (op.body.code = 500) => op.out = ErrInternalServer
          /\ (op.body.code = 503) => op.out = ErrServiceUnavailable
          /\ (op.body.code \notin {200, 404, 429, 500, 503}) =>
               /\ op.out.kind = "APIError"
               /\ op.out.Code = op.body.code
               /\ op.out.Message = op.body.message
          /\ (op.body.code = 200) =>
               (op.out \notin Sentinels /\ op.out.kind # "APIError")

\* C26's case: an envelope with code 429 and a message has been parsed.
C26_Witness ==
  /\ op.name = "parseResponse" /\ op.body.json
  /\ op.body.code = 429 /\ op.body.message = "error"
  /\ op.out = ErrRateLimited

\* Whether two buildCacheKey calls were given the same method, currency,
\* path and parameters.
SameRequest(x, y) ==
  /\ x.currency = y.currency /\ x.method = y.method /\ x.path = y.path
  /\ ParamsOf(x) = ParamsOf(y)

C28_SameRequestSameKey ==
  (op.name = "buildCacheKey" /\ op.prev # NoOp) =>
    (SameRequest(op.in, op.prev.in) => op.out = op.prev.out)

\* C28's cases: two parameters set in the two orders; and two clients of
\* different currencies building one key.
C28_Witness ==
  /\ op.name = "buildCacheKey" /\ op.prev # NoOp
  /\ op.in.sets # op.prev.in.sets /\ Len(op.in.sets) = 2
  /\ SameRequest(op.in, op.prev.in)

C28_CurrenciesCollide ==
  /\ op.name = "buildCacheKey" /\ op.prev # NoOp
  /\ op.in.currency # op.prev.in.currency
  /\ op.out = op.prev.out

\* Whether the call that has just begun or returned is the second of two
\* like calls: the one before it succeeded, without being served from the
\* cache itself, and this one was made less than the entry's lifetime later.
SecondOfTwo ==
  /\ hasCache
  /\ op.name \in ProductCalls /\ op.prev # NoOp
  /\ op.prev.name = op.name /\ op.prev.arg = op.arg
  /\ op.prev.err = NoErr /\ ~op.prev.hit
  /\ op.at < op.prev.doneAt + RequestTTL

\* C27: on a client with a cache, the second of two like calls returns at
\* once, from the cache, a result equal to the first's, with no transport
\* attempt and no limiter token taken.
C27_SecondCallFromCache ==
  SecondOfTwo =>
    /\ op.phase = "returned" /\ op.err = NoErr
    /\ op.out = op.prev.out
    /\ op.attempts = 0 /\ op.took = 0

\* What holds of C27: when the first call did store its result, the second
\* is served from that entry.
C27_StoredThenServed ==
  (SecondOfTwo /\ op.prev.set) =>
    /\ op.phase = "returned" /\ op.err = NoErr /\ op.hit
    /\ op.out = op.prev.out
    /\ op.attempts = 0 /\ op.took = 0

\* C27's case: a second KeywordSearch has been served from the first's
\* entry.
C27_Witness ==
  /\ SecondOfTwo /\ op.prev.set /\ op.hit
  /\ op.name = "KeywordSearch" /\ op.prev.attempts >= 1

\* The delay as cap-then-jitter computes it: the capped un-jittered delay,
\* perturbed by the jitter for draw u.
CapThenJitter(c, n, u) ==
  LET base == Base(c, n)
  IN IF c.Jitter > 0
       THEN (base * 10000 + base * c.Jitter * (2 * u - 100)) \div 10000
       ELSE base

\* C31: for every configuration and attempt index, the delays
\* calculateBackoff can return over the draws of the jitter are those of the
\* cap-then-jitter computation.
C31_CapThenJitter ==
  (op.name = "calculateBackoff") =>
    {calculateBackoff(op.c, op.attempt, u) : u \in PolicyDraws}
      = {CapThenJitter(op.c, op.attempt, u) : u \in PolicyDraws}

\* C32: within a call, no backoff precedes the first attempt; a backoff is
\* entered only from a failed attempt, Wait only from the call's start or a
\* backoff, and an attempt only from a Wait that succeeded; the k-th backoff
\* lasts calculateBackoff(k - 1) for some draw of the jitter; and once the
\* call is done it makes no attempt and only returns.
C32_CallStateMachine ==
  /\ [](\A p \in Requesters :
          /\ (pc[p] = "backoff") => (rstat[p].attempts >= 1 /\ attempt[p] >= 1)
          /\ (rstat[p].attempts = 0) => rstat[p].backoffs = 0)
  /\ [][\A p \in Requesters :
          /\ (pc[p] # "backoff" /\ pc'[p] = "backoff") =>
               /\ pc[p] = "transport"
               /\ rstat'[p].attempts = rstat[p].attempts + 1
               /\ rstat'[p].backoffs = rstat'[p].attempts
               /\ attempt'[p] = rstat'[p].backoffs
               /\ \E u \in RandDraws :
                    wakeAt'[p] = now + calculateBackoff(retryConfig, attempt'[p] - 1, u)
          /\ (pc[p] = "backoff" /\ pc'[p] # "backoff") => pc'[p] \in {"wait_lock", "done"}
          /\ (pc[p] \notin {"wait_lock", "wait_crit", "wait_sleep"} /\ pc'[p] = "wait_lock")
               => pc[p] \in {"idle", "backoff"}
          /\ (pc[p] # "transport" /\ pc'[p] = "transport") =>
               (pc[p] = "wait_ret" /\ waitErr[p] = "nil")
          /\ (pc[p] = "done") =>
               /\ pc'[p] \in {"done", "idle"}
               /\ rstat'[p].attempts \in {rstat[p].attempts, 0}]_vars

\* C32's case: the second retry's backoff has begun, after two attempts.
C32_Witness ==
  \E p \in Requesters :
    /\ pc[p] = "backoff" /\ attempt[p] = 2
    /\ rstat[p].attempts = 2 /\ rstat[p].backoffs = 2
    /\ \E u \in RandDraws : wakeAt[p] = now + calculateBackoff(retryConfig, 1, u)

C34_SweepInvisible ==
  /\ \A k \in CacheKeys :
       LET got == CacheGet(cache, k)
       IN /\ got.found <=> (k \in DOMAIN stored /\ now < ExpiryOf(k))
          /\ got.found => got.value = stored[k].value
  /\ (op.name = "Get") =>
       /\ op.found <=> (op.key \in DOMAIN stored /\ op.at < ExpiryOf(op.key))
       /\ op.found => op.value = stored[op.key].value

\* C34's case: the maintenance task has just removed an expired entry and
\* left an unexpired one, which a Get still finds.
C34_Witness ==
  /\ op.name = "sweep" /\ op.sizeBefore = 2 /\ op.sizeAfter = 1
  /\ \E k \in CacheKeys : CacheGet(cache, k).found

\* Whether e is an error parseResponse returns for a body the server sent
\* with status 200.
IsParseErr(e) == \E b \in Bodies \cup ErrorBodies : e # NoErr /\ e = ParseErr(b)

\* C36: on a client with a cache, a GetProductDetails that follows a like
\* call which failed to parse its response does not return a parse error
\* without a transport attempt of its own.
C36_NoReplayOfFailure ==
  (/\ hasCache
   /\ op.name = "GetProductDetails" /\ op.prev # NoOp
   /\ op.prev.name = op.name /\ op.prev.arg = op.arg
   /\ IsParseErr(op.prev.err) /\ op.prev.attempts >= 1
   /\ op.phase = "returned")
    => ~(IsParseErr(op.err) /\ op.attempts = 0)

\* C37: a Wait called with a context that is already cancelled takes no
\* token, and returns the context's error.
C37_CancelledTakesNoToken ==
  \A p \in Procs :
    ctxDone[p] => /\ wstat[p].took = 0
                  /\ pc[p] = "wait_ret" => waitErr[p] = "ctx"

\* The tokens a call has taken from the limiter so far, and whether a
\* transport attempt it has paid for is still to be made or in progress.
TokensTaken(p) == rstat[p].tokens + (IF pc[p] = "wait_ret" THEN wstat[p].took ELSE 0)
AttemptPending(p) ==
  IF pc[p] = "transport" \/ (pc[p] = "wait_ret" /\ wstat[p].took > 0) THEN 1 ELSE 0

\* C38: with concurrent calls on one Client, each call's tokens consumed are
\* its transport attempts made plus at most the one it has paid for and is
\* about to make or is making; a returned call has consumed exactly as many
\* tokens as it made attempts; and the same holds summed over the calls.
C38_TokenPerAttempt ==
  /\ \A p \in SharedCallers :
       /\ TokensTaken(p) = rstat[p].attempts + AttemptPending(p)
       /\ pc[p] = "wait_ret" => (wstat[p].took = 1 <=> waitErr[p] = "nil")
       /\ pc[p] \in {"done", "idle", "backoff"} => rstat[p].tokens = rstat[p].attempts
  /\ TokensTaken(1) + TokensTaken(2)
       = rstat[1].attempts + rstat[2].attempts + AttemptPending(1) + AttemptPending(2)

\* C38 witness: one call is making its second attempt while the other has
\* returned after at least one attempt of its own.
C38_Witness ==
  /\ pc[1] = "transport" /\ rstat[1].attempts = 1 /\ rstat[1].tokens = 2
  /\ pc[2] = "done" /\ rstat[2].attempts >= 1

\* DefaultCacheConfig: SearchTTL is 5 minutes and DetailsTTL 10 minutes.
SearchTTL == 300000
DetailsTTL == 600000
EndpointTTL(name) == IF name = "KeywordSearch" THEN SearchTTL ELSE DetailsTTL

\* C39: a result that KeywordSearch or GetProductDetails has stored expires
\* after the TTL of its endpoint, counted from when it was stored.
C39_EndpointTTL ==
  (op.name \in ProductCalls /\ op.phase = "returned" /\ op.set)
    => /\ op.key \in DOMAIN cache
       /\ cache[op.key].expiresAt = op.doneAt + EndpointTTL(op.name)

\* C40: whatever the client's retry configuration, a call that has returned
\* without a cache hit and without its context done has made at least one
\* transport attempt, and an error it returns that wraps a cause wraps one
\* that is not nil.
C40_AttemptAndCause ==
  \A p \in Requesters :
    (pc[p] = "done" /\ ~rstat[p].hit /\ ~ctxDone[p])
      => /\ rstat[p].attempts >= 1
         /\ result[p].err.kind = "wrapped" => result[p].err.cause # NoErr

\* C35: with callers and the sweep using the cache concurrently, the sweep
\* never removes an entry that has not expired and never reads an entry
\* without its value; an entry without its value exists only while the
\* caller writing it holds the lock; every Get and Size returns what it
\* would have returned had each operation taken effect at once; and
\* whenever the lock is free the cache is what it would then be.
C35_SweepExclusion ==
  /\ ~cacheOp[Sweeper].removedLive
  /\ ~cacheOp[Sweeper].sawTorn
  /\ \A k \in DOMAIN cache :
       cache[k].value = Absent
         => /\ cacheMu \in CacheWorkers
            /\ cacheOp[cacheMu].at = "set_key" /\ cacheOp[cacheMu].key = k
  /\ \A w \in CacheWorkers :
       /\ cacheOp[w].found = cacheOp[w].atFound
       /\ cacheOp[w].got = cacheOp[w].atGot /\ cacheOp[w].got # Absent
       /\ cacheOp[w].size = cacheOp[w].atSize
  /\ cacheMu = NoProc => cache = atomic

\* C35 witness: a sweep has removed the expired k2 and kept k1, which a
\* caller had just overwritten, expired, with a fresh TTL, while the other
\* caller has taken the lock for its own operation.
C35_Witness ==
  /\ cacheOp[Sweeper].name = "sweep" /\ cacheOp[Sweeper].at = "idle"
  /\ cacheOp[Sweeper].removed = {"k2"}
  /\ cacheOp[1].name = "Set" /\ cacheOp[1].key = "k1" /\ cacheOp[1].at = "idle"
  /\ cacheOp[1].overwrote /\ Live(cache, "k1")
  /\ cacheOp[2].at = "locked"

====
